---- MODULE Spec2Model ----
(***************************************************************************)
(* A model of the journal search engine of backend/src/RAGPipeline.ts:     *)
(* tokenizer, TF-IDF cosine scorer, keyword scorer, BM25 scorer and the    *)
(* hybrid combiner, driven as a state machine over one pipeline instance.  *)
(*                                                                         *)
(* Texts are sequences of one-character strings.  A JavaScript number is   *)
(* a fixed-point integer with Scale units per 1.0; NaN, -Infinity and      *)
(* undefined (an absent optional field) are distinguished values outside   *)
(* the range of every computed number.                                     *)
(***************************************************************************)
EXTENDS Integers, Sequences, FiniteSets

\* ------------------------------------------------------------------ bounds

\* Longest corpus drawn at construction.
MaxDocs == 2

\* Largest topK a caller passes.
MaxTopK == 2

\* The largest number of pieces of a text handed to the tokenizer.
MaxPieces == 4

\* The add requests a worker handles once it is live.
MaxAdds == 2

\* The handleSave calls that await their response at one time.
MaxSaving == 2

\* ----------------------------------------------------------------- numbers

\* Units per 1.0 of the fixed-point image of a JavaScript number.
Scale == 10000

\* An optional score field that is not set.
Undefined == -2000000000

\* The result of 0 / 0.
NaN == -1999999999

\* Math.max() of no arguments.
NegInfinity == -1999999998

IsNaN(x) == x = NaN

IsNumber(x) == x # NaN /\ x # Undefined /\ x # NegInfinity

\* The number n (an integer count or length) as a fixed-point value.
Num(n) == n * Scale

\* x || 0 : undefined, NaN and 0 are falsy.
OrZero(x) == IF x = Undefined \/ x = NaN THEN 0 ELSE x

\* a + b
FAdd(a, b) == IF IsNaN(a) \/ IsNaN(b) THEN NaN ELSE a + b

\* a - b
FSub(a, b) == IF IsNaN(a) \/ IsNaN(b) THEN NaN ELSE a - b

\* a * b, rounded to the nearest unit
FMul(a, b) == IF IsNaN(a) \/ IsNaN(b) THEN NaN ELSE (a * b + Scale \div 2) \div Scale

\* a / b, rounded to the nearest unit; 0 / 0 is NaN and a finite number over
\* -Infinity is 0.  No caller divides a non-zero number by zero.
FDiv(a, b) ==
    IF IsNaN(a) \/ IsNaN(b) THEN NaN
    ELSE IF b = NegInfinity THEN 0
    ELSE IF b = 0 THEN NaN
    ELSE IF b > 0 THEN (a * Scale + b \div 2) \div b
    ELSE ((-a) * Scale + (-b) \div 2) \div (-b)

RECURSIVE ISqrtBetween(_, _, _)
\* The largest r in lo..hi with r * r <= v, by bisection.
ISqrtBetween(v, lo, hi) ==
    IF lo >= hi THEN lo
    ELSE LET mid == (lo + hi + 1) \div 2
         IN  IF mid * mid <= v THEN ISqrtBetween(v, mid, hi)
             ELSE ISqrtBetween(v, lo, mid - 1)

\* Math.sqrt(x), rounded to the nearest unit
FSqrt(x) ==
    IF IsNaN(x) \/ x < 0 THEN NaN
    ELSE LET v == x * Scale
             r == ISqrtBetween(v, 0, 46339)
         IN  IF v - r * r > r THEN r + 1 ELSE r

\* Scale * ln(n) for the integers the scorers take logarithms of.
LnTable ==
    <<0, 6931, 10986, 13863, 16094, 17918, 19459, 20794,
      21972, 23026, 23979, 24849, 25649, 26391, 27081, 27726>>

\* Math.log(p / q) for positive integers p, q; Math.log(0 / q) is -Infinity,
\* which no scorer reaches (every corpus it scores is non-empty).
MathLogRatio(p, q) == IF p = 0 THEN NegInfinity ELSE LnTable[p] - LnTable[q]

\* a - b as a sort comparator sees it: NaN compares as equal (0).
CompareDesc(a, b) == IF IsNaN(a) \/ IsNaN(b) THEN 0 ELSE b - a

\* -------------------------------------------------------------------- text

UpperCase == {"A", "B", "C", "D", "E", "F", "G", "H", "I", "J", "K", "L", "M",
              "N", "O", "P", "Q", "R", "S", "T", "U", "V", "W", "X", "Y", "Z"}

LowerCase == {"a", "b", "c", "d", "e", "f", "g", "h", "i", "j", "k", "l", "m",
              "n", "o", "p", "q", "r", "s", "t", "u", "v", "w", "x", "y", "z"}

Digits == {"0", "1", "2", "3", "4", "5", "6", "7", "8", "9"}

LowerOf ==
    [c \in UpperCase |->
        CASE c = "A" -> "a" [] c = "B" -> "b" [] c = "C" -> "c" [] c = "D" -> "d"
          [] c = "E" -> "e" [] c = "F" -> "f" [] c = "G" -> "g" [] c = "H" -> "h"
          [] c = "I" -> "i" [] c = "J" -> "j" [] c = "K" -> "k" [] c = "L" -> "l"
          [] c = "M" -> "m" [] c = "N" -> "n" [] c = "O" -> "o" [] c = "P" -> "p"
          [] c = "Q" -> "q" [] c = "R" -> "r" [] c = "S" -> "s" [] c = "T" -> "t"
          [] c = "U" -> "u" [] c = "V" -> "v" [] c = "W" -> "w" [] c = "X" -> "x"
          [] c = "Y" -> "y" [] c = "Z" -> "z"]

\* String.prototype.toLowerCase
toLowerCase(s) == [i \in 1..Len(s) |-> IF s[i] \in UpperCase THEN LowerOf[s[i]] ELSE s[i]]

\* \w : a letter, a digit or the underscore
IsWordChar(c) == c \in LowerCase \cup UpperCase \cup Digits \cup {"_"}

\* \s
IsSpaceChar(c) == c \in {" ", "\t", "\n"}

\* The text with its punctuation left where it is.
StripPunctuationKept(s) == s

\* .replace(/[^\w\s]/g, ' ')
StripPunctuation(s) ==
    [i \in 1..Len(s) |-> IF IsWordChar(s[i]) \/ IsSpaceChar(s[i]) THEN s[i] ELSE " "]

RECURSIVE SplitWhitespace(_, _, _, _)
\* .split(/\s+/) from position i on; cur is the piece being read.  The empty
\* pieces that leading or trailing whitespace produces are kept, as split
\* keeps them.
SplitWhitespace(s, i, cur, acc) ==
    IF i > Len(s) THEN Append(acc, cur)
    ELSE IF IsSpaceChar(s[i])
         THEN IF i > 1 /\ IsSpaceChar(s[i - 1])
              THEN SplitWhitespace(s, i + 1, cur, acc)
              ELSE SplitWhitespace(s, i + 1, <<>>, Append(acc, cur))
         ELSE SplitWhitespace(s, i + 1, Append(cur, s[i]), acc)

\* .filter(word => word.length > 2)
FilterShort(words) == SelectSeq(words, LAMBDA w : Len(w) > 2)

\* RAGPipeline.tokenize
tokenize(text) ==
    FilterShort(SplitWhitespace(StripPunctuation(toLowerCase(text)), 1, <<>>, <<>>))

\* s.substring(i - 1, i - 1 + n) = w, for 1-based i
MatchesAt(s, i, w) ==
    /\ i + Len(w) - 1 <= Len(s)
    /\ \A j \in 1..Len(w) : s[i + j - 1] = w[j]

\* String.prototype.includes
Includes(s, w) == \E i \in 1..(Len(s) + 1) : MatchesAt(s, i, w)

RECURSIVE CountMatchesFrom(_, _, _)
\* (text.match(new RegExp(word, 'g')) || []).length from position i on: the
\* matches of a global regular expression do not overlap.  A token holds word
\* characters only, so it matches as a literal.
CountMatchesFrom(s, i, w) ==
    IF i + Len(w) - 1 > Len(s) THEN 0
    ELSE IF MatchesAt(s, i, w) THEN 1 + CountMatchesFrom(s, i + Len(w), w)
    ELSE CountMatchesFrom(s, i + 1, w)

CountMatches(s, w) == CountMatchesFrom(s, 1, w)

\* ----------------------------------------------------------------- entries

\* A JournalEntry as the storage layer supplies it: no score field is set.
JournalEntry(date, day, text) ==
    [date |-> date, day |-> day, text |-> text,
     similarity_score |-> Undefined, keyword_score |-> Undefined,
     bm25_score |-> Undefined, hybrid_score |-> Undefined,
     searchType |-> "undefined"]

\* The same statement with the field written on the object itself.
AssignInPlace(obj, fieldName, value) ==
    [copy |-> [obj EXCEPT ![fieldName] = value],
     source |-> [obj EXCEPT ![fieldName] = value]]

\* { ...obj, field: value } : a fresh object carrying obj's fields and the
\* new field; obj itself (source) is left as it was.
Spread(obj, fieldName, value) ==
    [copy |-> [obj EXCEPT ![fieldName] = value], source |-> obj]

\* The fresh objects of a sequence of spreads.
Copies(made) == [i \in 1..Len(made) |-> made[i].copy]

\* The objects a sequence of spreads read, as the spreads left them.
Sources(made) == [i \in 1..Len(made) |-> made[i].source]

\* .slice(0, k)
Slice(s, k) == SubSeq(s, 1, IF k < Len(s) THEN k ELSE Len(s))

RECURSIVE InsertByKeyTiesReversed(_, _, _)
\* The insertion of an unstable sort: x goes before the indexes of equal key.
InsertByKeyTiesReversed(out, x, keys) ==
    IF Len(out) = 0 THEN <<x>>
    ELSE IF CompareDesc(keys[out[Len(out)]], keys[x]) >= 0
         THEN Append(InsertByKeyTiesReversed(SubSeq(out, 1, Len(out) - 1), x, keys),
                     out[Len(out)])
         ELSE Append(out, x)

RECURSIVE InsertByKey(_, _, _)
\* Index x placed into the sorted index list out: behind every index whose
\* key does not order after it (a stable insertion).
InsertByKey(out, x, keys) ==
    IF Len(out) = 0 THEN <<x>>
    ELSE IF CompareDesc(keys[out[Len(out)]], keys[x]) > 0
         THEN Append(InsertByKey(SubSeq(out, 1, Len(out) - 1), x, keys), out[Len(out)])
         ELSE Append(out, x)

RECURSIVE SortIndexesFrom(_, _, _)
SortIndexesFrom(out, i, keys) ==
    IF i > Len(keys) THEN out
    ELSE SortIndexesFrom(InsertByKey(out, i, keys), i + 1, keys)

\* The indexes left in their original order (no sort).
KeepOrderIndexes(keys) == [i \in 1..Len(keys) |-> i]

\* Array.prototype.sort((a, b) => key(b) - key(a)) as the order of indexes:
\* descending keys, equal keys in their original order (the sort is stable).
\* Every comparator the pipeline passes is consistent on the keys it meets: a
\* NaN key occurs only beside keys 0 and NaN, which all compare as equal.
SortDescIndexes(keys) == SortIndexesFrom(<<>>, 1, keys)

\* The items in the order of the index list.
Permute(items, order) == [i \in 1..Len(order) |-> items[order[i]]]

RECURSIVE SumSeq(_)
\* The left-to-right sum of a sequence of numbers.
SumSeq(s) == IF Len(s) = 0 THEN 0 ELSE FAdd(SumSeq(SubSeq(s, 1, Len(s) - 1)), s[Len(s)])

\* The larger of two numbers, -Infinity being below every number.
Max2(x, y) == IF x = NegInfinity \/ y > x THEN y ELSE x

RECURSIVE MaxSeq(_)
\* Math.max(...s)
MaxSeq(s) ==
    IF Len(s) = 0 THEN NegInfinity
    ELSE Max2(MaxSeq(SubSeq(s, 1, Len(s) - 1)), s[Len(s)])

\* The number of positions of s that hold x.
CountOf(s, x) == Cardinality({i \in 1..Len(s) : s[i] = x})

\* The set of the elements of s.
Range(s) == {s[i] : i \in 1..Len(s)}

\* front with x added behind it unless front holds x.
AddOnce(front, x) == IF x \in Range(front) THEN front ELSE Append(front, x)

RECURSIVE Dedupe(_)
\* Array.from(new Set(s)) : first occurrences, in insertion order.
Dedupe(s) ==
    IF Len(s) = 0 THEN <<>>
    ELSE AddOnce(Dedupe(SubSeq(s, 1, Len(s) - 1)), s[Len(s)])

RECURSIVE Flatten(_)
Flatten(ss) == IF Len(ss) = 0 THEN <<>> ELSE Flatten(SubSeq(ss, 1, Len(ss) - 1)) \o ss[Len(ss)]

\* ------------------------------------------------------------ keyword search

\* What one pass of the queryWords.forEach body adds to the score (lines
\* 165-171): the matches of the word, and the phrase bonus queryWords.length.
KeywordWordScore(text, word, phrase, wordCount) ==
    Num(CountMatches(text, word)) + (IF Includes(text, phrase) THEN Num(wordCount) ELSE 0)

\* The score of a lowercased entry text for the query words and the
\* lowercased query (lines 162-172).
KeywordScoreOf(text, queryWords, phrase) ==
    SumSeq([i \in 1..Len(queryWords) |->
               KeywordWordScore(text, queryWords[i], phrase, Len(queryWords))])

\* The keyword_score of one entry.
KeywordScore(entryText, query) ==
    KeywordScoreOf(toLowerCase(entryText), tokenize(query), toLowerCase(query))

\* .sort((a, b) => b.keyword_score - a.keyword_score).slice(0, topK)
KeywordOrder(kept, topK) ==
    Slice(Permute(kept, SortDescIndexes([i \in 1..Len(kept) |-> kept[i].keyword_score])),
          topK)

\* The sort and the slice without the filter.
KeywordRankUnfiltered(scoredResults, topK) == KeywordOrder(scoredResults, topK)

\* .filter(result => result.keyword_score > 0), then the sort and the slice
KeywordRank(scoredResults, topK) ==
    KeywordOrder(SelectSeq(scoredResults, LAMBDA r : r.keyword_score > 0), topK)

\* The return value and the corpus left behind, from the scored spreads.
KeywordReturn(made, topK) ==
    [out |-> KeywordRank(Copies(made), topK), logs |-> Sources(made)]

\* RAGPipeline.performKeywordSearch: out is what the call returns, logs the
\* corpus the pipeline holds afterwards.
performKeywordSearch(logs, query, topK) ==
    IF Len(logs) = 0 THEN [out |-> <<>>, logs |-> logs]
    ELSE KeywordReturn([i \in 1..Len(logs) |->
                           Spread(logs[i], "keyword_score",
                                  KeywordScore(logs[i].text, query))],
                       topK)

\* ----------------------------------------------------------- semantic search

\* The table calculateTFIDF fills from the tokens of the documents:
\* tf[term][docIndex] = termCount / tokens.length, for the documents that
\* hold the term.
TermFrequencyTable(tokens) ==
    [term \in Range(Flatten(tokens)) |->
        [d \in {d \in 1..Len(tokens) : CountOf(tokens[d], term) > 0} |->
            FDiv(Num(CountOf(tokens[d], term)), Num(Len(tokens[d])))]]

\* RAGPipeline.calculateTFIDF (the idf table it also fills is dropped at its
\* return).
calculateTFIDF(documents) ==
    TermFrequencyTable([d \in 1..Len(documents) |-> tokenize(documents[d])])

\* RAGPipeline.cosineSimilarity
cosineSimilarity(vecA, vecB) ==
    IF Len(vecA) # Len(vecB) THEN 0
    ELSE
    LET dotProduct == SumSeq([i \in 1..Len(vecA) |-> FMul(vecA[i], vecB[i])])
        normA == SumSeq([i \in 1..Len(vecA) |-> FMul(vecA[i], vecA[i])])
        normB == SumSeq([i \in 1..Len(vecA) |-> FMul(vecB[i], vecB[i])])
    IN  IF normA = 0 \/ normB = 0 THEN 0
        ELSE FDiv(dotProduct, FMul(FSqrt(normA), FSqrt(normB)))

\* Object.keys(tfidf[term] || {}).length
DocFrequency(tfidf, term) ==
    IF term \in DOMAIN tfidf THEN Cardinality(DOMAIN tfidf[term]) ELSE 0

\* Math.log(documents.length / (Object.keys(tfidf[term] || {}).length + 1))
SemanticIdf(tfidf, term, docCount) ==
    MathLogRatio(docCount, DocFrequency(tfidf, term) + 1)

\* tfidf[term]?.[docIndex] || 0
TermFrequency(tfidf, term, docIndex) ==
    IF term \in DOMAIN tfidf /\ docIndex \in DOMAIN tfidf[term]
    THEN OrZero(tfidf[term][docIndex]) ELSE 0

\* The vector of one document over the vocabulary (lines 113-121).
DocVector(docIndex, vocabulary, tfidf, docCount) ==
    [v \in 1..Len(vocabulary) |->
        FMul(TermFrequency(tfidf, vocabulary[v], docIndex),
             SemanticIdf(tfidf, vocabulary[v], docCount))]

\* The vector of the query over the vocabulary (lines 124-134).
QueryVector(queryTokens, vocabulary, tfidf, docCount) ==
    [v \in 1..Len(vocabulary) |->
        FMul(FDiv(Num(CountOf(queryTokens, vocabulary[v])), Num(Len(queryTokens))),
             SemanticIdf(tfidf, vocabulary[v], docCount))]

\* The vocabulary: the tokens of the documents, then those of the query, each
\* once (lines 100-106).
Vocabulary(documents, queryTokens) ==
    Dedupe(Flatten([i \in 1..Len(documents) |-> tokenize(documents[i])]) \o queryTokens)

\* The similarity of the query vector to every document vector (lines
\* 137-140).
VectorSimilarities(queryVector, vocabulary, tfidf, docCount) ==
    [i \in 1..docCount |->
        cosineSimilarity(queryVector, DocVector(i, vocabulary, tfidf, docCount))]

\* The similarities from the vocabulary and the tf table.
SimilaritiesOver(queryTokens, vocabulary, tfidf, docCount) ==
    VectorSimilarities(QueryVector(queryTokens, vocabulary, tfidf, docCount),
                       vocabulary, tfidf, docCount)

\* The similarities for the documents and the query tokens.
DocumentSimilarities(documents, queryTokens) ==
    SimilaritiesOver(queryTokens, Vocabulary(documents, queryTokens),
                     calculateTFIDF(documents), Len(documents))

\* The similarity of every entry to the query (lines 96-140), in corpus order.
Similarities(logs, query) ==
    DocumentSimilarities([i \in 1..Len(logs) |-> logs[i].text], tokenize(query))

\* The return value and the corpus left behind: top holds the indexes of the
\* returned entries, made their spreads.
SemanticReturn(logs, top, made) ==
    [out |-> Copies(made),
     logs |-> [d \in 1..Len(logs) |->
                  IF d \in Range(top)
                  THEN made[CHOOSE i \in 1..Len(top) : top[i] = d].source
                  ELSE logs[d]]]

\* .map(({ index, similarity }) => ({ ...this.journalLogs[index], similarity_score }))
SemanticSpread(logs, similarity, top) ==
    SemanticReturn(logs, top,
                   [i \in 1..Len(top) |->
                       Spread(logs[top[i]], "similarity_score", similarity[top[i]])])

\* .sort((a, b) => b.similarity - a.similarity).slice(0, topK)
SemanticRank(logs, similarity, topK) ==
    SemanticSpread(logs, similarity, Slice(SortDescIndexes(similarity), topK))

\* The semantic search that leaves out what has no similarity.
performSemanticSearchFiltered(logs, query, topK) ==
    [out |-> SelectSeq(SemanticRank(logs, Similarities(logs, query), topK).out,
                       LAMBDA r : IsNumber(r.similarity_score) /\ r.similarity_score > 0),
     logs |-> logs]

\* RAGPipeline.performSemanticSearch: out is what the call returns, logs the
\* corpus the pipeline holds afterwards.
performSemanticSearch(logs, query, topK) ==
    IF Len(logs) = 0 THEN [out |-> <<>>, logs |-> logs]
    ELSE SemanticRank(logs, Similarities(logs, query), topK)

\* --------------------------------------------------------------- BM25 search

\* k1 = 1.5
BM25_k1 == 15000

\* b = 0.75
BM25_b == 7500

\* The number of entries whose tokens include the term (lines 205-207).
BM25DocFrequency(docTokens, term) ==
    Cardinality({d \in 1..Len(docTokens) : CountOf(docTokens[d], term) > 0})

\* Math.log((docCount - docFrequency + 0.5) / (docFrequency + 0.5))
BM25Idf(docCount, docFrequency) ==
    MathLogRatio(2 * (docCount - docFrequency) + 1, 2 * docFrequency + 1)

\* k1 * (1 - b + b * (docLength / avgDocLength))
BM25K(docLength, avgDocLength) ==
    FMul(BM25_k1,
         FAdd(FSub(Scale, BM25_b), FMul(BM25_b, FDiv(Num(docLength), avgDocLength))))

\* The term's share with the saturation fraction turned over:
\* idf[term] * ((tf + K) / (tf * (k1 + 1)))
BM25TermInverted(idf, tf, K) ==
    FMul(idf, FDiv(FAdd(Num(tf), K), FMul(Num(tf), FAdd(BM25_k1, Scale))))

\* idf[term] * ((tf * (k1 + 1)) / (tf + K))
BM25Term(idf, tf, K) ==
    FMul(idf, FDiv(FMul(Num(tf), FAdd(BM25_k1, Scale)), FAdd(Num(tf), K)))

\* What one query term adds to the score of a document (lines 223-227).
BM25Share(docTokens, tokens, term, avgDocLength) ==
    IF CountOf(tokens, term) > 0
    THEN BM25Term(BM25Idf(Len(docTokens), BM25DocFrequency(docTokens, term)),
                  CountOf(tokens, term), BM25K(Len(tokens), avgDocLength))
    ELSE 0

\* docLengths.reduce((sum, len) => sum + len, 0) / docLengths.length
AvgDocLength(docTokens) ==
    FDiv(SumSeq([d \in 1..Len(docTokens) |-> Num(Len(docTokens[d]))]), Num(Len(docTokens)))

\* The score of the document with these tokens (lines 221-228).
BM25ScoreOf(docTokens, tokens, queryTerms, avgDocLength) ==
    SumSeq([i \in 1..Len(queryTerms) |->
               BM25Share(docTokens, tokens, queryTerms[i], avgDocLength)])

\* The scores of all documents, from their tokens.
BM25Scores(docTokens, queryTerms) ==
    [d \in 1..Len(docTokens) |->
        BM25ScoreOf(docTokens, docTokens[d], queryTerms, AvgDocLength(docTokens))]

\* .sort((a, b) => b.bm25_score - a.bm25_score).slice(0, topK)
BM25Order(kept, topK) ==
    Slice(Permute(kept, SortDescIndexes([i \in 1..Len(kept) |-> kept[i].bm25_score])), topK)

\* The return value and the corpus left behind, from the scored spreads.
BM25Return(made, topK) ==
    [out |-> BM25Order(SelectSeq(Copies(made), LAMBDA r : r.bm25_score > 0), topK),
     logs |-> Sources(made)]

\* The scores written on the entries of the corpus themselves.
BM25SpreadInPlace(logs, scores, topK) ==
    BM25Return([i \in 1..Len(logs) |-> AssignInPlace(logs[i], "bm25_score", scores[i])],
               topK)

\* The scored spreads of the entries (lines 230-233).
BM25Spread(logs, scores, topK) ==
    BM25Return([i \in 1..Len(logs) |-> Spread(logs[i], "bm25_score", scores[i])], topK)

\* RAGPipeline.performBM25Search
performBM25Search(logs, query, topK) ==
    IF Len(logs) = 0 THEN [out |-> <<>>, logs |-> logs]
    ELSE BM25Spread(logs,
                    BM25Scores([d \in 1..Len(logs) |-> tokenize(logs[d].text)],
                               tokenize(query)),
                    topK)

\* ------------------------------------------------------------- hybrid search

\* `${result.date}_${result.day}`
HybridKey(result) == result.date \o "_" \o result.day

\* Map.prototype.has
MapHas(map, key) == \E i \in 1..Len(map) : map[i].key = key

\* Map.prototype.get, for a key the map holds
MapGet(map, key) == map[CHOOSE i \in 1..Len(map) : map[i].key = key].value

\* A list that takes every value at its end, whether the key is held or not.
MapSetAlwaysAppend(map, key, value) == Append(map, [key |-> key, value |-> value])

\* Map.prototype.set: a key the map holds keeps its place and takes the new
\* value, a new key goes last.
MapSet(map, key, value) ==
    IF MapHas(map, key)
    THEN [i \in 1..Len(map) |-> IF map[i].key = key THEN [key |-> key, value |-> value]
                                 ELSE map[i]]
    ELSE Append(map, [key |-> key, value |-> value])

\* score / max if max > 0, else 0 (lines 261 and 271)
Normalized(score, maxScore) == IF maxScore > 0 THEN FDiv(OrZero(score), maxScore) ELSE 0

\* alpha * normalizedSemantic + (1 - alpha) * normalizedKeyword
Blend(alpha, normalizedSemantic, normalizedKeyword) ==
    FAdd(FMul(alpha, normalizedSemantic), FMul(FSub(Scale, alpha), normalizedKeyword))

\* One pass of the semanticResults.forEach body (lines 260-265).
AddSemanticResult(map, result, maxSemanticScore, alpha) ==
    MapSet(map, HybridKey(result),
           Spread(result, "hybrid_score",
                  Blend(alpha, Normalized(result.similarity_score, maxSemanticScore), 0)).copy)

RECURSIVE AddSemanticResults(_, _, _, _)
\* The first n semantic results entered into the empty map (lines 259-266).
AddSemanticResults(semanticResults, n, maxSemanticScore, alpha) ==
    IF n = 0 THEN <<>>
    ELSE AddSemanticResult(AddSemanticResults(semanticResults, n - 1, maxSemanticScore, alpha),
                           semanticResults[n], maxSemanticScore, alpha)

\* The hybrid_score written on a map entry that a keyword result meets
\* (lines 275-276): alpha * (existing.similarity_score || 0) / maxSemanticScore
\* + (1 - alpha) * normalizedKeyword, the division not guarded.
CombinedScore(existing, normalizedKeyword, maxSemanticScore, alpha) ==
    FAdd(FDiv(FMul(alpha, OrZero(existing.similarity_score)), maxSemanticScore),
         FMul(FSub(Scale, alpha), normalizedKeyword))

\* One pass of the keywordResults.forEach body (lines 270-282).
AddKeywordResult(map, result, normalizedKeyword, maxSemanticScore, alpha) ==
    IF MapHas(map, HybridKey(result))
    THEN MapSet(map, HybridKey(result),
                [MapGet(map, HybridKey(result)) EXCEPT !.hybrid_score =
                    CombinedScore(MapGet(map, HybridKey(result)), normalizedKeyword,
                                  maxSemanticScore, alpha)])
    ELSE MapSet(map, HybridKey(result),
                Spread(result, "hybrid_score", Blend(alpha, 0, normalizedKeyword)).copy)

RECURSIVE AddKeywordResults(_, _, _, _, _, _)
\* The first n keyword results combined into the map (lines 269-283).
AddKeywordResults(map, keywordResults, n, maxSemanticScore, maxKeywordScore, alpha) ==
    IF n = 0 THEN map
    ELSE AddKeywordResult(AddKeywordResults(map, keywordResults, n - 1,
                                            maxSemanticScore, maxKeywordScore, alpha),
                          keywordResults[n],
                          Normalized(keywordResults[n].keyword_score, maxKeywordScore),
                          maxSemanticScore, alpha)

\* Array.from(resultMap.values())
MapValues(map) == [i \in 1..Len(map) |-> map[i].value]

\* The sorted values in a list of fixed length topK, the free places filled
\* with objects that have no field set.
HybridOrderPadded(values, topK) ==
    [i \in 1..topK |->
        IF i <= Len(values)
        THEN Permute(values,
                     SortDescIndexes([j \in 1..Len(values) |->
                                         OrZero(values[j].hybrid_score)]))[i]
        ELSE JournalEntry("undefined", "undefined", <<>>)]

\* .sort((a, b) => (b.hybrid_score || 0) - (a.hybrid_score || 0)).slice(0, topK)
HybridOrder(values, topK) ==
    Slice(Permute(values,
                  SortDescIndexes([i \in 1..Len(values) |-> OrZero(values[i].hybrid_score)])),
          topK)

\* The merge for the two maxima (lines 258-287).
MergeWithMax(semanticResults, keywordResults, topK, alpha, maxSemanticScore, maxKeywordScore) ==
    HybridOrder(
        MapValues(
            AddKeywordResults(
                AddSemanticResults(semanticResults, Len(semanticResults),
                                   maxSemanticScore, alpha),
                keywordResults, Len(keywordResults),
                maxSemanticScore, maxKeywordScore, alpha)),
        topK)

\* The part of performHybridSearch behind the await (lines 251-287).
MergeHybrid(semanticResults, keywordResults, topK, alpha) ==
    MergeWithMax(semanticResults, keywordResults, topK, alpha,
                 MaxSeq([i \in 1..Len(semanticResults) |->
                            OrZero(semanticResults[i].similarity_score)]),
                 MaxSeq([i \in 1..Len(keywordResults) |->
                            OrZero(keywordResults[i].keyword_score)]))

\* The end of a hybrid call whose sub-searches have both returned.
HybridJoin(semanticOut, keyword, topK, alpha) ==
    [out |-> MergeHybrid(semanticOut, keyword.out, topK, alpha), logs |-> keyword.logs]

\* A hybrid call from the return of its semantic sub-search on.
HybridAfterSemantic(semantic, query, topK, alpha) ==
    HybridJoin(semantic.out, performKeywordSearch(semantic.logs, query, topK * 2),
               topK, alpha)

\* RAGPipeline.performHybridSearch run from start to end, the sub-searches
\* running in the order Promise.all is handed them.
performHybridSearch(logs, query, topK, alpha) ==
    HybridAfterSemantic(performSemanticSearch(logs, query, topK * 2), query, topK, alpha)

\* ---------------------------------------------------- combineSearchResults

\* result.text.substring(0, 50)
KeyPrefixLength == 50

\* up to 5 total: .slice(0, 5)
CombineLimit == 5

\* String.prototype.substring(0, n)
substring(text, n) == SubSeq(text, 1, IF n < Len(text) THEN n ELSE Len(text))

\* `${result.date}_${result.text.substring(0, 50)}` : the date, the
\* underscore and the characters of the prefix.  (The dates the storage layer
\* supplies hold no underscore, so the date is kept as one piece.)
CombineKey(result) == <<result.date, "_">> \o substring(result.text, KeyPrefixLength)

\* One pass of the semanticResults.forEach body (lines 298-299): spread is the
\* spread { ...result, searchType: 'semantic' }.
AddCombineSemantic(map, result) ==
    MapSet(map, CombineKey(result), Spread(result, "searchType", "semantic").copy)

RECURSIVE AddCombineSemantics(_, _)
\* The first n semantic results entered into the empty map (lines 297-300).
AddCombineSemantics(semanticResults, n) ==
    IF n = 0 THEN <<>>
    ELSE AddCombineSemantic(AddCombineSemantics(semanticResults, n - 1), semanticResults[n])

\* The keyword result set for its key whether the map holds the key or not.
AddCombineKeywordOverwrite(map, result) ==
    MapSet(map, CombineKey(result), Spread(result, "searchType", "keyword").copy)

\* One pass of the keywordResults.forEach body (lines 304-307).
AddCombineKeyword(map, result) ==
    IF ~MapHas(map, CombineKey(result))
    THEN MapSet(map, CombineKey(result), Spread(result, "searchType", "keyword").copy)
    ELSE map

RECURSIVE AddCombineKeywords(_, _, _)
\* The first n keyword results entered into the map (lines 303-308).
AddCombineKeywords(map, keywordResults, n) ==
    IF n = 0 THEN map
    ELSE AddCombineKeyword(AddCombineKeywords(map, keywordResults, n - 1), keywordResults[n])

\* The values of the map, none cut off.
CombineOrderUncut(values) == values

\* Array.from(resultMap.values()).slice(0, 5)
CombineOrder(values) == Slice(values, CombineLimit)

\* The lists as combineSearchResults leaves them: it reads every result
\* through a spread.
CombineSources(results, fieldValue) ==
    [i \in 1..Len(results) |-> Spread(results[i], "searchType", fieldValue).source]

\* RAGPipeline.combineSearchResults: out is what it returns, semantic and
\* keyword the two argument lists afterwards.
combineSearchResults(semanticResults, keywordResults) ==
    [out |-> CombineOrder(MapValues(
                 AddCombineKeywords(
                     AddCombineSemantics(semanticResults, Len(semanticResults)),
                     keywordResults, Len(keywordResults)))),
     semantic |-> CombineSources(semanticResults, "semantic"),
     keyword |-> CombineSources(keywordResults, "keyword")]

\* --------------------------------------------------------- generateAIAnswer

\* searchResults.slice(0, 5) : the entries of the context
ContextEntries == 5

\* searchResults.slice(0, 3) : the entries of the fallback answer
FallbackEntries == 3

\* .filter(s => s.trim().length > 10)
MinSentenceLength == 10

\* entry.text.substring(0, 200)
ExcerptLength == 200

\* r.similarity_score > 0.7
StrongSimilarity == 7000

\* queryWords.slice(0, 3)
SummaryWords == 3

\* A value the || operator passes over: undefined, NaN and 0.
Falsy(x) == x = Undefined \/ IsNaN(x) \/ x = 0

\* result.similarity_score || result.keyword_score || result.hybrid_score || 0
RelevanceScore(result) ==
    IF ~Falsy(result.similarity_score) THEN result.similarity_score
    ELSE IF ~Falsy(result.keyword_score) THEN result.keyword_score
    ELSE IF ~Falsy(result.hybrid_score) THEN result.hybrid_score
    ELSE 0

\* The integer nearest to x / unit, a tie going to the larger magnitude: the
\* digits Number.prototype.toFixed prints.
RoundedBy(x, unit) ==
    IF x >= 0 THEN (x + unit \div 2) \div unit ELSE -((-x + unit \div 2) \div unit)

\* (score * 100).toFixed(0) : the percentage as a whole number
toFixed0(score) == RoundedBy(score * 100, Scale)

\* (score * 100).toFixed(1) : the percentage in tenths
toFixed1(score) == RoundedBy(score * 1000, Scale)

\* One line of the context (line 324).
ContextLine(result, index) ==
    [index |-> index, date |-> result.date, day |-> result.day,
     relevance |-> toFixed0(RelevanceScore(result)), text |-> result.text]

\* searchResults.slice(0, 5).map(...).join('\n\n')
Context(searchResults) ==
    [i \in 1..Len(Slice(searchResults, ContextEntries)) |->
        ContextLine(searchResults[i], i)]

\* The prompt handed to env.AI.run: its fixed wording around the query and the
\* context (lines 329-342).
Prompt(query, searchResults) == [query |-> query, context |-> Context(searchResults)]

\* The sentence ends: [.!?]
IsSentenceEnd(c) == c \in {".", "!", "?"}

RECURSIVE SplitSentences(_, _, _, _)
\* .split(/[.!?]+/) from position i on; cur is the piece being read.  Empty
\* pieces at the start and at the end are kept, as split keeps them.
SplitSentences(s, i, cur, acc) ==
    IF i > Len(s) THEN Append(acc, cur)
    ELSE IF IsSentenceEnd(s[i])
         THEN IF i > 1 /\ IsSentenceEnd(s[i - 1])
              THEN SplitSentences(s, i + 1, cur, acc)
              ELSE SplitSentences(s, i + 1, <<>>, Append(acc, cur))
         ELSE SplitSentences(s, i + 1, Append(cur, s[i]), acc)

RECURSIVE TrimStart(_)
TrimStart(s) ==
    IF Len(s) > 0 /\ IsSpaceChar(s[1]) THEN TrimStart(SubSeq(s, 2, Len(s))) ELSE s

RECURSIVE TrimEnd(_)
TrimEnd(s) ==
    IF Len(s) > 0 /\ IsSpaceChar(s[Len(s)]) THEN TrimEnd(SubSeq(s, 1, Len(s) - 1)) ELSE s

\* String.prototype.trim
trim(s) == TrimEnd(TrimStart(s))

\* entry.text.split(/[.!?]+/).filter(s => s.trim().length > 10)
Sentences(text) ==
    SelectSeq(SplitSentences(text, 1, <<>>, <<>>),
              LAMBDA piece : Len(trim(piece)) > MinSentenceLength)

\* queryWords.reduce((score, word) =>
\*     score + (sentence.toLowerCase().includes(word) ? 1 : 0), 0)
SentenceScore(sentence, queryWords) ==
    Cardinality({w \in 1..Len(queryWords) : Includes(toLowerCase(sentence), queryWords[w])})

\* One pass of the sentences.reduce callback (lines 380-384).
BetterSentence(best, current, queryWords) ==
    IF SentenceScore(current, queryWords) > SentenceScore(best, queryWords)
    THEN current ELSE best

RECURSIVE ReduceSentences(_, _, _, _)
\* sentences.reduce(callback, initial) over the first n sentences.
ReduceSentences(sentences, n, initial, queryWords) ==
    IF n = 0 THEN initial
    ELSE BetterSentence(ReduceSentences(sentences, n - 1, initial, queryWords),
                        sentences[n], queryWords)

\* The reduce started from sentences[0] || entry.text.substring(0, 200); an
\* empty string is passed over by ||.
BestOf(sentences, text, queryWords) ==
    ReduceSentences(sentences, Len(sentences),
                    IF Len(sentences) > 0 /\ Len(sentences[1]) > 0
                    THEN sentences[1] ELSE substring(text, ExcerptLength),
                    queryWords)

\* bestSentence.trim(), the sentence printed for the entry (lines 378-387).
BestSentence(text, queryWords) == trim(BestOf(Sentences(text), text, queryWords))

\* The lines the fallback answer prints for one entry (lines 374-387).
FallbackLine(entry, index, queryWords) ==
    [index |-> index, date |-> entry.date, day |-> entry.day,
     relevance |-> toFixed1(RelevanceScore(entry)),
     sentence |-> BestSentence(entry.text, queryWords)]

\* The summary the fallback answer ends with (lines 391-398).
FallbackSummary(searchResults, queryWords) ==
    IF Len(searchResults) > 1
    THEN [words |-> Slice(queryWords, SummaryWords),
          strong |-> \E i \in 1..Len(searchResults) :
                         /\ ~Falsy(searchResults[i].similarity_score)
                         /\ searchResults[i].similarity_score > StrongSimilarity]
    ELSE [words |-> <<>>, strong |-> FALSE]

\* The answer generateAIAnswer returns for an empty result list (line 319).
NotFoundAnswer(query) ==
    [kind |-> "notFound", query |-> query, resultCount |-> 0, lines |-> <<>>,
     summary |-> [words |-> <<>>, strong |-> FALSE]]

\* The text the external call returned, handed on as the answer.
AIAnswer(query) ==
    [kind |-> "ai", query |-> query, resultCount |-> 0, lines |-> <<>>,
     summary |-> [words |-> <<>>, strong |-> FALSE]]

\* No answer yet.
NoAnswer ==
    [kind |-> "none", query |-> <<>>, resultCount |-> 0, lines |-> <<>>,
     summary |-> [words |-> <<>>, strong |-> FALSE]]

\* RAGPipeline.generateFallbackAnswer (lines 362-401); its not-found sentence
\* (line 364) does not name the query.
generateFallbackAnswer(query, searchResults) ==
    IF Len(searchResults) = 0
    THEN [kind |-> "fallbackNotFound", query |-> <<>>, resultCount |-> 0, lines |-> <<>>,
          summary |-> [words |-> <<>>, strong |-> FALSE]]
    ELSE [kind |-> "fallback", query |-> <<>>, resultCount |-> Len(searchResults),
          lines |-> [i \in 1..Len(Slice(searchResults, FallbackEntries)) |->
                        FallbackLine(searchResults[i], i, tokenize(query))],
          summary |-> FallbackSummary(searchResults, tokenize(query))]

\* What env.AI.run can do: resolve with a response text, with an empty
\* response text, with an object without response, with no object at all, or
\* reject.
AIOutcomes == {"responseText", "emptyResponse", "noResponse", "noObject", "rejects"}

\* The answer with the rejection left uncaught: only a response text or its
\* absence is handled.
AnswerAfterUncaught(outcome, query, searchResults) ==
    IF outcome = "responseText" THEN AIAnswer(query)
    ELSE IF outcome \in {"rejects", "noObject"}
         THEN [AIAnswer(query) EXCEPT !.kind = "error"]
    ELSE generateFallbackAnswer(query, searchResults)

\* What generateAIAnswer returns once the external call has settled (lines
\* 344-356): response.response || fallback inside try, the fallback in catch
\* (reading .response of no object throws inside the try).
AnswerAfter(outcome, query, searchResults) ==
    IF outcome = "responseText" THEN AIAnswer(query)
    ELSE generateFallbackAnswer(query, searchResults)

\* -------------------------------------------------------------------- inputs

TextRunFar == <<"r", "u", "n", " ", "f", "a", "r">>

TextRunBang == <<"R", "u", "n", "!">>

TextGo == <<"g", "o">>

\* The entries a corpus is drawn from: two written on the same day, two on
\* another day, one of them without a token.
EntryPool ==
    {JournalEntry("2024-01-01", "Monday", TextRunFar),
     JournalEntry("2024-01-01", "Monday", TextRunBang),
     JournalEntry("2024-01-02", "Tuesday", TextRunBang),
     JournalEntry("2024-01-02", "Tuesday", TextGo)}

TextWentRunning ==
    <<"I", " ", "w", "e", "n", "t", " ", "r", "u", "n", "n", "i", "n", "g", " ",
      "t", "h", "i", "s", " ", "m", "o", "r", "n", "i", "n", "g", " ", "a", "n",
      "d", " ", "f", "e", "l", "t", " ", "g", "r", "e", "a", "t">>

TextHadCoffee ==
    <<"H", "a", "d", " ", "c", "o", "f", "f", "e", "e", " ", "w", "i", "t", "h",
      " ", "a", " ", "f", "r", "i", "e", "n", "d">>

TextRunningAgain ==
    <<"R", "u", "n", "n", "i", "n", "g", " ", "a", "g", "a", "i", "n", ",", " ",
      "l", "o", "n", "g", "e", "r", " ", "t", "h", "i", "s", " ", "t", "i", "m",
      "e">>

\* The three-entry corpus of the running / coffee / running scenario.
ScenarioCorpus ==
    <<JournalEntry("2024-01-01", "Monday", TextWentRunning),
      JournalEntry("2024-01-02", "Tuesday", TextHadCoffee),
      JournalEntry("2024-01-03", "Wednesday", TextRunningAgain)>>

QueryRunning == <<"r", "u", "n", "n", "i", "n", "g">>

QueryRunFar == <<"R", "u", "n", " ", "f", "a", "r">>

QueryBangs == <<"!", "!">>

QueryThisTime == <<"t", "h", "i", "s", " ", "t", "i", "m", "e">>

\* The queries a caller passes; QueryBangs tokenizes to no token.
Queries == {QueryRunning, QueryRunFar, QueryBangs, QueryThisTime}

\* The values of alpha a caller passes: 0.0, 0.5 and 1.0.
Alphas == {0, Scale \div 2, Scale}

TopKs == 1..MaxTopK

\* The corpora a pipeline is constructed with.
Corpora ==
    UNION {[1..n -> EntryPool] : n \in 0..MaxDocs} \cup {ScenarioCorpus}

\* An entry as a search returned it, with the scores the search set.
ScoredEntry(date, day, text, similarity, keyword, hybrid) ==
    [JournalEntry(date, day, text) EXCEPT !.similarity_score = similarity,
                                          !.keyword_score = keyword,
                                          !.hybrid_score = hybrid]

\* A text head of 50 characters, and two texts that start with it.
TextHead == [i \in 1..KeyPrefixLength |-> IF i % 6 = 0 THEN " " ELSE "a"]

TextHeadRunning ==
    TextHead \o <<".", " ", "W", "e", "n", "t", " ", "r", "u", "n", "n", "i", "n", "g",
                  " ", "t", "h", "i", "s", " ", "t", "i", "m", "e", ".">>

TextHeadStayed ==
    TextHead \o <<".", " ", "S", "t", "a", "y", "e", "d", " ", "i", "n", ".">>

\* What performHybridSearch("this time", 2, 0.5) returns for the scenario
\* corpus: the entry of 2024-01-03, found by both sub-searches, and the entry
\* of 2024-01-01, found by the keyword sub-search with a similarity of 0.
HybridThisTime ==
    <<ScoredEntry("2024-01-03", "Wednesday", TextRunningAgain, 5754, Undefined, 10000),
      ScoredEntry("2024-01-01", "Monday", TextWentRunning, 0, Undefined, 834)>>

\* What performKeywordSearch("this time", 2) returns for the scenario corpus.
KeywordThisTime ==
    <<ScoredEntry("2024-01-03", "Wednesday", TextRunningAgain, Undefined, 60000, Undefined),
      ScoredEntry("2024-01-01", "Monday", TextWentRunning, Undefined, 10000, Undefined)>>

\* The results a caller holds as its semantic list, best first: the two
\* hybrid results (the second with similarity_score 0 and a hybrid_score), a
\* long text, a second result for the key of the second, and three more days.
SemanticRanking ==
    <<HybridThisTime[1],
      HybridThisTime[2],
      ScoredEntry("2024-01-04", "Thursday", TextHeadRunning, 5000, Undefined, Undefined),
      ScoredEntry("2024-01-01", "Monday", TextWentRunning, 4000, Undefined, Undefined),
      ScoredEntry("2024-01-05", "Friday", TextRunFar, 3000, Undefined, Undefined),
      ScoredEntry("2024-01-06", "Saturday", TextRunFar, 2000, Undefined, Undefined),
      ScoredEntry("2024-01-07", "Sunday", TextGo, 1000, Undefined, Undefined)>>

\* The results a caller holds as its keyword list: one for the key of the
\* first semantic result, one whose text differs from the long text behind
\* its first 50 characters, and two for no key of the semantic list.
KeywordRanking ==
    <<KeywordThisTime[1],
      ScoredEntry("2024-01-04", "Thursday", TextHeadStayed, Undefined, 10000, Undefined),
      ScoredEntry("2024-01-08", "Monday", TextRunBang, Undefined, 20000, Undefined),
      ScoredEntry("2024-01-04", "Thursday", TextRunBang, Undefined, 10000, Undefined)>>

RECURSIVE PickFrom(_, _, _)
\* The entries of the first n places of the ranking whose place is in keep.
PickFrom(ranking, keep, n) ==
    IF n = 0 THEN <<>>
    ELSE IF n \in keep THEN Append(PickFrom(ranking, keep, n - 1), ranking[n])
    ELSE PickFrom(ranking, keep, n - 1)

\* The lists a caller passes: any selection of a ranking, in its order.
ListsOf(ranking) ==
    {PickFrom(ranking, keep, Len(ranking)) : keep \in SUBSET (1..Len(ranking))}

\* The queries an answer is asked for.
AnswerQueries == {QueryThisTime, QueryRunning}

\* ------------------------------------------------------------- user session

\* private maxEntries = 50
maxEntries == 50

\* private maxEntries = 10, the session object of src/src
LegacyMaxEntries == 10

\* LIMIT 50
EntriesLimit == 50

\* ragPipeline.performHybridSearch(body.query, 5)
SearchTopK == 5

\* Date.now() counts in ticks; a day has this many of them.
TicksPerDay == 2

\* A timestamp that is truthy and no time a Date can hold:
\* new Date(timestamp).toISOString() throws a RangeError for it.
OutOfRangeTime == 1000000000

PathSession == <<"s", "e", "s", "s", "i", "o", "n">>

ActionAdd == <<"a", "d", "d">>

ActionEntries == <<"e", "n", "t", "r", "i", "e", "s">>

ActionSearch == <<"s", "e", "a", "r", "c", "h">>

\* The characters encodeURIComponent leaves as they are.
Unreserved ==
    LowerCase \cup UpperCase \cup Digits \cup {"-", "_", ".", "!", "~", "*", "'", "(", ")"}

\* The escape sequence of a character that is not left as it is.
PercentEncoded(c) ==
    CASE c = "@" -> <<"%", "4", "0">>
      [] c = "+" -> <<"%", "2", "B">>
      [] c = "/" -> <<"%", "2", "F">>
      [] c = " " -> <<"%", "2", "0">>
      [] c = "%" -> <<"%", "2", "5">>

\* encodeURIComponent(s)
encodeURIComponent(s) ==
    Flatten([i \in 1..Len(s) |-> IF s[i] \in Unreserved THEN <<s[i]>> ELSE PercentEncoded(s[i])])

\* new URL(request.url).pathname for the path a client wrote: the URL parser
\* escapes a space and leaves "@", "+" and a "%" escape as they are written.
Pathname(path) ==
    Flatten([i \in 1..Len(path) |-> IF path[i] = " " THEN PercentEncoded(" ") ELSE <<path[i]>>])

\* `/session/${userId}/${action}`
SessionPath(userId, action) ==
    <<"/">> \o PathSession \o <<"/">> \o userId \o <<"/">> \o action

RECURSIVE SplitOn(_, _, _, _, _)
\* s.split(sep) from position i on; cur is the piece being read.
SplitOn(s, sep, i, cur, acc) ==
    IF i > Len(s) THEN Append(acc, cur)
    ELSE IF s[i] = sep THEN SplitOn(s, sep, i + 1, <<>>, Append(acc, cur))
    ELSE SplitOn(s, sep, i + 1, Append(cur, s[i]), acc)

\* url.pathname.split("/")[n]
PathPart(pathname, n) ==
    IF n + 1 <= Len(SplitOn(pathname, "/", 1, <<>>, <<>>))
    THEN SplitOn(pathname, "/", 1, <<>>, <<>>)[n + 1]
    ELSE <<"u", "n", "d", "e", "f", "i", "n", "e", "d">>

\* index.ts: env.USER_SESSION.idFromName(url.pathname.split("/")[2])
SessionName(pathname) == PathPart(pathname, 2)

\* UserSession.fetch: const userId = pathParts[2]
SessionUserId(pathname) == PathPart(pathname, 2)

\* UserSession.fetch: const action = pathParts[3]
SessionAction(pathname) == PathPart(pathname, 3)

\* { text, timestamp }
Entry(text, timestamp) == [text |-> text, timestamp |-> timestamp]

\* A row of journal_entries: (user_id, entry_text, timestamp)
Row(userId, text, timestamp) ==
    [user_id |-> userId, entry_text |-> text, timestamp |-> timestamp]

\* The buffer that takes every entry and drops none.
PushEntryUnbounded(buffer, entry, limit) == Append(buffer, entry)

\* this.entries.push(entry); if (this.entries.length > this.maxEntries)
\* this.entries.shift()
PushEntry(buffer, entry, limit) ==
    IF Len(buffer) + 1 > limit THEN Tail(Append(buffer, entry)) ELSE Append(buffer, entry)

\* this.entries of the session object of that name; a new object holds none.
BufferOf(sessions, name) == IF MapHas(sessions, name) THEN MapGet(sessions, name) ELSE <<>>

\* body.timestamp || Date.now()
TimestampOf(body, now) == IF Falsy(body.timestamp) THEN now ELSE body.timestamp

\* new Date(timestamp).toISOString() returns: the timestamp is a time a Date
\* holds.  The ISO text of such a time orders as the time does and parses
\* back to it, so a row keeps the time itself.
ValidTime(timestamp) == IsNumber(timestamp) /\ timestamp # OutOfRangeTime

\* The rows all users have, with no WHERE clause.
RowsOfAnyUser(rows, userId) == rows

\* WHERE user_id = ?
RowsOfUser(rows, userId) == SelectSeq(rows, LAMBDA row : row.user_id = userId)

\* ORDER BY timestamp DESC
NewestFirst(rows) ==
    Permute(rows, SortDescIndexes([i \in 1..Len(rows) |-> rows[i].timestamp]))

\* The rows as the entries handler formats them (lines 114-117).
FormatEntries(rows) ==
    [i \in 1..Len(rows) |-> Entry(rows[i].entry_text, rows[i].timestamp)]

\* SELECT entry_text as text, timestamp ... WHERE user_id = ? ORDER BY
\* timestamp DESC LIMIT 50 (lines 102-108)
SelectEntries(rows, userId) ==
    FormatEntries(Slice(NewestFirst(RowsOfUser(rows, userId)), EntriesLimit))

DateNames ==
    <<"2024-01-01", "2024-01-02", "2024-01-03", "2024-01-04", "2024-01-05", "2024-01-06",
      "2024-01-07">>

DayNames ==
    <<"Monday", "Tuesday", "Wednesday", "Thursday", "Friday", "Saturday", "Sunday">>

\* DATE(timestamp)
DateOf(timestamp) == DateNames[((timestamp \div TicksPerDay) % 7) + 1]

\* CASE WHEN strftime('%w', timestamp) = '0' THEN 'Sunday' ... END
DayOf(timestamp) == DayNames[((timestamp \div TicksPerDay) % 7) + 1]

\* The rows converted to journal entries (lines 185-189).
ToJournalLogs(rows) ==
    [i \in 1..Len(rows) |->
        JournalEntry(DateOf(rows[i].timestamp), DayOf(rows[i].timestamp), rows[i].entry_text)]

\* The search handler's SELECT ... WHERE user_id = ? ORDER BY timestamp DESC
\* (lines 151-166)
SelectJournalLogs(rows, userId) == ToJournalLogs(NewestFirst(RowsOfUser(rows, userId)))

\* The request the worker handled: what it was and what the database did.
Request(kind, userId, query, database) ==
    [kind |-> kind, userId |-> userId, query |-> query, database |-> database]

NoRequest == Request("none", <<>>, <<>>, "unused")

\* A response of the session object: its status and the fields of its body.
Response(kind, status, success, list, results, answerOf, totalEntries) ==
    [kind |-> kind, status |-> status, success |-> success, entries |-> list,
     results |-> results, answer |-> answerOf, totalEntries |-> totalEntries]

NoResponse == Response("none", 0, "absent", <<>>, <<>>, NoAnswer, 0)

\* { success: true, entries: this.entries, message } (lines 70-79)
AddSaved(buffer) == Response("add", 200, "true", buffer, <<>>, NoAnswer, 0)

\* { success: false, error, details } with status 500 (lines 83-93)
AddFailed == Response("add", 500, "false", <<>>, <<>>, NoAnswer, 0)

\* The entries handler answering with status 500 when it has no row to give.
EntriesResponseOrError(selected, buffer, databaseOk) ==
    IF databaseOk /\ Len(selected) > 0
    THEN Response("entries", 200, "absent", selected, <<>>, NoAnswer, 0)
    ELSE Response("entries", 500, "false", <<>>, <<>>, NoAnswer, 0)

\* The entries handler (lines 100-137): the rows if the query gave any, else
\* this.entries, both with the default status.
EntriesResponse(selected, buffer, databaseOk) ==
    IF databaseOk /\ Len(selected) > 0
    THEN Response("entries", 200, "absent", selected, <<>>, NoAnswer, 0)
    ELSE Response("entries", 200, "absent", buffer, <<>>, NoAnswer, 0)

\* { success: false, error: 'Search failed', details } with status 500
SearchFailed == Response("search", 500, "false", <<>>, <<>>, NoAnswer, 0)

\* The answer of the search handler for a user without rows (lines 170-182).
NoEntriesAnswer == [NoAnswer EXCEPT !.kind = "noEntries"]

\* { success: true, results: [], answer, message } (lines 171-181)
SearchEmpty == Response("search", 200, "true", <<>>, <<>>, NoEntriesAnswer, 0)

\* { success: true, results, answer, totalEntries } (lines 200-210)
SearchDone(results, answerOf, totalEntries) ==
    Response("search", 200, "true", <<>>, results, answerOf, totalEntries)

\* generateAIAnswer(query, searchResults, env) run to its end.
generateAIAnswer(query, searchResults, outcome) ==
    IF Len(searchResults) = 0 THEN NotFoundAnswer(query)
    ELSE AnswerAfter(outcome, query, searchResults)

\* The texts users save.
SessionTexts == {TextRunBang, TextRunningAgain}

\* The queries users search for.
SessionQueries == {QueryRunFar, QueryThisTime}

\* session.user.email of the users.
UserEmails == {<<"a", "@", "x">>, <<"b", "@", "x">>}

\* The user ids the path of a search holds: an email encoded, as the query
\* page writes it, or as it is.  The session page and the entries route
\* (part_003 line 118) write the email as it is.
RequestUserIds == UserEmails \cup {encodeURIComponent(email) : email \in UserEmails}

\* A request body that is no JSON.
Unparseable == [parsed |-> FALSE, text |-> <<>>, timestamp |-> Undefined, query |-> <<>>]

\* The bodies of add requests: a text and a timestamp that is the client's
\* time, missing, or no time.
AddBodies(now) ==
    {Unparseable} \cup
    {[parsed |-> TRUE, text |-> text, timestamp |-> timestamp, query |-> <<>>] :
        text \in SessionTexts, timestamp \in {now, Undefined, OutOfRangeTime}}

\* The bodies of search requests.
SearchBodies ==
    {Unparseable} \cup
    {[parsed |-> TRUE, text |-> <<>>, timestamp |-> Undefined, query |-> query] :
        query \in SessionQueries}

\* What became of an add request.
Added(session, userId, entry, pushed, status, earlier) ==
    [session |-> session, userId |-> userId, entry |-> entry, pushed |-> pushed,
     status |-> status, earlier |-> earlier]

\* The entries a session object holds after maxEntries - 1 adds of earlier
\* days.
EarlierEntries == [t \in 1..(maxEntries - 1) |-> Entry(TextGo, t)]

\* ------------------------------------------------------------------- pages

\* text.trim() ? text.trim().split(/\s+/).length : 0
WordCount(text) ==
    IF Len(trim(text)) = 0 THEN 0 ELSE Len(SplitWhitespace(trim(text), 1, <<>>, <<>>))

\* The call of fetch a page made: the path and the JSON body.
Fetched(path, text) == [path |-> path, text |-> text]

NotFetched == Fetched(<<>>, <<>>)

\* `/session/${userId}/add`, as the session page writes it (page.tsx line 81)
SessionPageAddPath(email) == SessionPath(email, ActionAdd)

\* `/session/${encodeURIComponent(userId)}/search`, as the query page writes
\* it (part_005 line 87)
QueryPageSearchPath(email) == SessionPath(encodeURIComponent(email), ActionSearch)

\* No fetch has ended yet.
NoOutcome == [kind |-> "none", ok |-> FALSE, success |-> "absent"]

\* The session page: journalEntry and wordCount are its state; saving counts
\* the handleSave calls that await their response; alert is the alert shown
\* last, fetched the request sent last, ran the handler that ran last and
\* outcome how the fetch that ended last ended.
SessionPage(journalEntry, wordCount, saving, alert, fetched, ran, outcome) ==
    [journalEntry |-> journalEntry, wordCount |-> wordCount, saving |-> saving,
     alert |-> alert, fetched |-> fetched, ran |-> ran, outcome |-> outcome]

\* useState('') and useState(0)
OpenSessionPage == SessionPage(<<>>, 0, 0, "none", NotFetched, "none", NoOutcome)

ClosedSessionPage == SessionPage(<<>>, 0, 0, "none", NotFetched, "closed", NoOutcome)

\* The query page: query, isLoading, results, answer and showResults are its
\* state; alert, fetched, ran and outcome are as on the session page.
QueryPage(query, isLoading, results, answerText, showResults, alert, fetched, ran, outcome) ==
    [query |-> query, isLoading |-> isLoading, results |-> results, answer |-> answerText,
     showResults |-> showResults, alert |-> alert, fetched |-> fetched, ran |-> ran,
     outcome |-> outcome]

\* useState('') / useState(false) / useState([]) / useState('') / useState(false)
OpenQueryPage == QueryPage(<<>>, FALSE, <<>>, "", FALSE, "none", NotFetched, "none", NoOutcome)

ClosedQueryPage ==
    QueryPage(<<>>, FALSE, <<>>, "", FALSE, "none", NotFetched, "closed", NoOutcome)

\* A field a response body does not have.
AbsentText == "undefined"

\* result.answer || ''
OrEmptyText(text) == IF text = AbsentText THEN "" ELSE text

\* The ways a fetch and the reading of its body end: the body of a response
\* with its ok flag and its success field, a body that is no JSON, and a
\* fetch that rejects.
FetchOutcomes ==
    {[kind |-> kind, ok |-> ok, success |-> success] :
        kind \in {"json"}, ok \in BOOLEAN, success \in {"true", "false", "absent"}}
    \cup {[kind |-> "notJson", ok |-> ok, success |-> "absent"] : ok \in BOOLEAN}
    \cup {[kind |-> "rejected", ok |-> FALSE, success |-> "absent"]}

\* response.ok && result.success, once response.json() returned
Succeeded(outcome) == outcome.kind = "json" /\ outcome.ok /\ outcome.success = "true"

\* What the text area and the query input are given.
TypedTexts == {<<>>, <<" ">>, TextRunBang, <<" ", "g", "o", " ", "o", "n", "\t">>}

TypedQueries == {<<>>, <<" ", "\t">>, QueryRunFar, QueryThisTime}

\* session.user.email: an email, or none.
SignedIn == UserEmails \cup {<<>>}

\* The results and the answer of a search response.
ResultLists == {<<>>, <<JournalEntry("2024-01-01", "Monday", TextRunBang)>>}

AnswerTexts == {AbsentText, "", "You ran."}

\* handleTextChange (page.tsx lines 58-62)
handleTextChange(page, text) ==
    [page EXCEPT !.journalEntry = text, !.wordCount = WordCount(text),
                 !.ran = "handleTextChange"]

\* handleSave up to its first await (page.tsx lines 64-90): a blank text and a
\* missing user id end it with an alert, otherwise the add request is sent.
handleSave(page, email) ==
    IF Len(trim(page.journalEntry)) = 0
    THEN [page EXCEPT !.alert = "writeSomething", !.ran = "handleSave"]
    ELSE IF Len(email) = 0
         THEN [page EXCEPT !.alert = "userNotFound", !.ran = "handleSave"]
         ELSE [page EXCEPT !.saving = @ + 1,
                           !.fetched = Fetched(SessionPageAddPath(email), page.journalEntry),
                           !.ran = "handleSave"]

\* The rest of handleSave, with the text cleared whatever the outcome.
SaveSettledAlwaysCleared(page, outcome) ==
    [page EXCEPT !.journalEntry = <<>>, !.wordCount = 0, !.saving = @ - 1,
                 !.alert = IF Succeeded(outcome) THEN "saved" ELSE "failedToSave",
                 !.ran = "saveSettled", !.outcome = outcome]

\* The rest of handleSave once its fetch ended (page.tsx lines 92-105).
SaveSettled(page, outcome) ==
    IF Succeeded(outcome)
    THEN [page EXCEPT !.journalEntry = <<>>, !.wordCount = 0, !.saving = @ - 1,
                      !.alert = "saved", !.ran = "saveSettled", !.outcome = outcome]
    ELSE [page EXCEPT !.saving = @ - 1, !.alert = "failedToSave", !.ran = "saveSettled",
                      !.outcome = outcome]

\* onChange of the query input: setQuery(e.target.value)
setQuery(page, text) == [page EXCEPT !.query = text, !.ran = "setQuery"]

\* handleSubmit up to its first await (part_005 lines 70-95).  A blank query
\* returns at once.  A missing user id throws inside the try, so the catch and
\* the finally run before the page renders again.
handleSubmit(page, email) ==
    IF Len(trim(page.query)) = 0 THEN page
    ELSE IF Len(email) = 0
         THEN [page EXCEPT !.isLoading = FALSE, !.results = <<>>, !.answer = "",
                           !.showResults = TRUE, !.alert = "searchFailed",
                           !.ran = "handleSubmit"]
         ELSE [page EXCEPT !.isLoading = TRUE, !.results = <<>>, !.answer = "",
                           !.showResults = FALSE, !.alert = "none",
                           !.fetched = Fetched(QueryPageSearchPath(email), page.query),
                           !.ran = "handleSubmit"]

\* The rest of handleSubmit without its finally block.
SubmitSettledNoFinally(page, outcome, results, answerText) ==
    IF Succeeded(outcome)
    THEN [page EXCEPT !.results = results, !.answer = OrEmptyText(answerText),
                      !.showResults = TRUE, !.ran = "submitSettled", !.outcome = outcome]
    ELSE [page EXCEPT !.showResults = TRUE, !.alert = "searchFailed",
                      !.ran = "submitSettled", !.outcome = outcome]

\* The rest of handleSubmit once its fetch ended (part_005 lines 97-113).
SubmitSettled(page, outcome, results, answerText) ==
    IF Succeeded(outcome)
    THEN [page EXCEPT !.results = results, !.answer = OrEmptyText(answerText),
                      !.showResults = TRUE, !.isLoading = FALSE,
                      !.ran = "submitSettled", !.outcome = outcome]
    ELSE [page EXCEPT !.showResults = TRUE, !.isLoading = FALSE, !.alert = "searchFailed",
                      !.ran = "submitSettled", !.outcome = outcome]

\* handleNewQuery (part_005 lines 116-121)
handleNewQuery(page) ==
    [page EXCEPT !.query = <<>>, !.results = <<>>, !.answer = "", !.showResults = FALSE,
                 !.ran = "handleNewQuery"]

\* --------------------------------------------------------------------- state

VARIABLES
    journalLogs,      \* RAGPipeline.journalLogs
    supplied,         \* the corpus the constructor was given (never written)
    pc,               \* "idle", "hybrid" (between start and merge) or "done"
    call,             \* the call in progress or just returned
    semanticResults,  \* what the semantic sub-search of a hybrid call returned
    keywordResults,   \* what the keyword sub-search of a hybrid call returned
    settled,          \* the sub-searches of a hybrid call that have completed, in order
    result,           \* what the call returned
    reused,           \* TRUE once an earlier call has returned on this pipeline
    answer,           \* what generateAIAnswer returned
    sent,             \* the prompts handed to env.AI.run
    aiOutcome,        \* what env.AI.run did
    journal_entries,  \* the rows of the table journal_entries, in the order of their insertion
    entries,          \* UserSession.entries of every session object, by the name of the object
    adds,             \* the add requests handled so far, with what became of each
    clock,            \* Date.now()
    request,          \* the request the worker handled last
    response,         \* the response it gave
    user,             \* session.user.email of the signed-in user of the pages
    sessionPage,      \* the state of the session page (page.tsx)
    queryPage         \* the state of the query page (QueryMyLogs)

vars ==
    <<journalLogs, supplied, pc, call, semanticResults, keywordResults, settled, result,
      reused, answer, sent, aiOutcome, journal_entries, entries, adds, clock, request,
      response, user, sessionPage, queryPage>>

answerVars == <<answer, sent, aiOutcome>>

sessionVars == <<journal_entries, entries, adds, clock, request, response>>

pageVars == <<user, sessionPage, queryPage>>

\* No worker has handled a request.
NoSession ==
    /\ journal_entries = <<>>
    /\ entries = <<>>
    /\ adds = <<>>
    /\ clock = 1
    /\ request = NoRequest
    /\ response = NoResponse

\* No page is open.
NoPage ==
    /\ user = <<>>
    /\ sessionPage = ClosedSessionPage
    /\ queryPage = ClosedQueryPage

NoCall == [op |-> "none", query |-> <<>>, topK |-> 0, alpha |-> Undefined]

\* new RAGPipeline(journalLogs)
Init ==
    /\ journalLogs \in Corpora
    /\ supplied = journalLogs
    /\ pc = "idle"
    /\ call = NoCall
    /\ semanticResults = <<>>
    /\ keywordResults = <<>>
    /\ settled = <<>>
    /\ result = <<>>
    /\ reused = FALSE
    /\ answer = NoAnswer
    /\ sent = <<>>
    /\ aiOutcome = "none"
    /\ NoSession
    /\ NoPage

\* await ragPipeline.performSemanticSearch(query, topK)
SemanticSearch(query, topK) ==
    /\ pc = "idle"
    /\ \E r \in {performSemanticSearch(journalLogs, query, topK)} :
           /\ result' = r.out
           /\ journalLogs' = r.logs
    /\ pc' = "done"
    /\ call' = [op |-> "semantic", query |-> query, topK |-> topK, alpha |-> Undefined]
    /\ UNCHANGED <<supplied, semanticResults, keywordResults, settled, reused, answerVars, sessionVars, pageVars>>

\* await ragPipeline.performKeywordSearch(query, topK)
KeywordSearch(query, topK) ==
    /\ pc = "idle"
    /\ \E r \in {performKeywordSearch(journalLogs, query, topK)} :
           /\ result' = r.out
           /\ journalLogs' = r.logs
    /\ pc' = "done"
    /\ call' = [op |-> "keyword", query |-> query, topK |-> topK, alpha |-> Undefined]
    /\ UNCHANGED <<supplied, semanticResults, keywordResults, settled, reused, answerVars, sessionVars, pageVars>>

\* await ragPipeline.performBM25Search(query, topK)
BM25Search(query, topK) ==
    /\ pc = "idle"
    /\ \E r \in {performBM25Search(journalLogs, query, topK)} :
           /\ result' = r.out
           /\ journalLogs' = r.logs
    /\ pc' = "done"
    /\ call' = [op |-> "bm25", query |-> query, topK |-> topK, alpha |-> Undefined]
    /\ UNCHANGED <<supplied, semanticResults, keywordResults, settled, reused, answerVars, sessionVars, pageVars>>

\* performHybridSearch is entered: both sub-searches are handed to
\* Promise.all (lines 245-249).
HybridStart(query, topK, alpha) ==
    /\ pc = "idle"
    /\ pc' = "hybrid"
    /\ call' = [op |-> "hybrid", query |-> query, topK |-> topK, alpha |-> alpha]
    /\ settled' = <<>>
    /\ UNCHANGED <<journalLogs, supplied, semanticResults, keywordResults, result, reused, answerVars, sessionVars, pageVars>>

\* this.performSemanticSearch(query, topK * 2) completes.
HybridSemanticSettles ==
    /\ pc = "hybrid"
    /\ \A i \in 1..Len(settled) : settled[i] # "semantic"
    /\ \E r \in {performSemanticSearch(journalLogs, call.query, call.topK * 2)} :
           /\ semanticResults' = r.out
           /\ journalLogs' = r.logs
    /\ settled' = Append(settled, "semantic")
    /\ UNCHANGED <<supplied, pc, call, keywordResults, result, reused, answerVars, sessionVars, pageVars>>

\* this.performKeywordSearch(query, topK * 2) completes.
HybridKeywordSettles ==
    /\ pc = "hybrid"
    /\ \A i \in 1..Len(settled) : settled[i] # "keyword"
    /\ \E r \in {performKeywordSearch(journalLogs, call.query, call.topK * 2)} :
           /\ keywordResults' = r.out
           /\ journalLogs' = r.logs
    /\ settled' = Append(settled, "keyword")
    /\ UNCHANGED <<supplied, pc, call, semanticResults, result, reused, answerVars, sessionVars, pageVars>>

\* The merge run as soon as one sub-search has completed.
HybridMergeBeforeJoin ==
    /\ pc = "hybrid"
    /\ Len(settled) >= 1
    /\ result' = MergeHybrid(semanticResults, keywordResults, call.topK, call.alpha)
    /\ pc' = "done"
    /\ UNCHANGED <<journalLogs, supplied, call, semanticResults, keywordResults, settled, reused, answerVars, sessionVars, pageVars>>

\* Promise.all has resolved: the merge runs and the call returns.
HybridMerge ==
    /\ pc = "hybrid"
    /\ Len(settled) = 2
    /\ result' = MergeHybrid(semanticResults, keywordResults, call.topK, call.alpha)
    /\ pc' = "done"
    /\ UNCHANGED <<journalLogs, supplied, call, semanticResults, keywordResults, settled, reused, answerVars, sessionVars, pageVars>>

\* The caller has taken the returned list; the pipeline waits for the next call.
Return ==
    /\ pc \in {"done", "combined"}
    /\ pc' = "idle"
    /\ call' = NoCall
    /\ semanticResults' = <<>>
    /\ keywordResults' = <<>>
    /\ settled' = <<>>
    /\ result' = <<>>
    /\ reused' = TRUE
    /\ UNCHANGED <<journalLogs, supplied, answerVars, sessionVars, pageVars>>

\* ragPipeline.combineSearchResults(semanticResults, keywordResults), on the
\* lists of a hybrid call or on the lists the caller holds.
Combine ==
    /\ (pc = "done" /\ call.op = "hybrid") \/ pc = "given"
    /\ \E r \in {combineSearchResults(semanticResults, keywordResults)} :
           /\ result' = r.out
           /\ semanticResults' = r.semantic
           /\ keywordResults' = r.keyword
    /\ pc' = "combined"
    /\ UNCHANGED <<journalLogs, supplied, call, settled, reused, answerVars, sessionVars, pageVars>>

\* generateAIAnswer(query, searchResults, env) up to its await: the not-found
\* answer for an empty list (lines 318-320), else the prompt goes to
\* env.AI.run (lines 323-349).
GenerateAIAnswer ==
    /\ pc = "combined"
    /\ IF Len(result) = 0
       THEN /\ answer' = NotFoundAnswer(call.query)
            /\ pc' = "answered"
            /\ UNCHANGED sent
       ELSE /\ sent' = Append(sent, Prompt(call.query, result))
            /\ pc' = "awaiting"
            /\ UNCHANGED answer
    /\ UNCHANGED <<journalLogs, supplied, call, semanticResults, keywordResults, settled,
                   result, reused, aiOutcome, sessionVars, pageVars>>

\* env.AI.run has settled and generateAIAnswer returns (lines 351-356).
AISettles(outcome) ==
    /\ pc = "awaiting"
    /\ answer' = AnswerAfter(outcome, call.query, result)
    /\ aiOutcome' = outcome
    /\ pc' = "answered"
    /\ UNCHANGED <<journalLogs, supplied, call, semanticResults, keywordResults, settled,
                   result, reused, sent, sessionVars, pageVars>>

Next ==
    \/ \E query \in Queries, topK \in TopKs : SemanticSearch(query, topK)
    \/ \E query \in Queries, topK \in TopKs : KeywordSearch(query, topK)
    \/ \E query \in Queries, topK \in TopKs : BM25Search(query, topK)
    \/ \E query \in Queries, topK \in TopKs, alpha \in Alphas : HybridStart(query, topK, alpha)
    \/ HybridSemanticSettles
    \/ HybridKeywordSettles
    \/ HybridMerge
    \/ Combine
    \/ Return

Spec == Init /\ [][Next]_vars

\* A caller that holds a semantic and a keyword list for a query, on a
\* pipeline constructed with the scenario corpus.
CombineInit ==
    /\ journalLogs = ScenarioCorpus
    /\ supplied = journalLogs
    /\ pc = "given"
    /\ \E query \in AnswerQueries :
           call = [op |-> "given", query |-> query, topK |-> 0, alpha |-> Undefined]
    /\ semanticResults \in ListsOf(SemanticRanking)
    /\ keywordResults \in ListsOf(KeywordRanking)
    /\ settled = <<>>
    /\ result = <<>>
    /\ reused = FALSE
    /\ answer = NoAnswer
    /\ sent = <<>>
    /\ aiOutcome = "none"
    /\ NoSession
    /\ NoPage

CombineNext ==
    \/ Combine
    \/ GenerateAIAnswer
    \/ \E outcome \in AIOutcomes : AISettles(outcome)

\* The caller's path: combine the two lists, then ask for the answer.
CombineSpec == CombineInit /\ [][CombineNext]_vars

\* The pieces a text is put together from: words of one, two and three word
\* characters (letters of both cases, a digit, the underscore), whitespace and
\* punctuation.
TokenPieces ==
    {<<"R", "u", "n">>, <<"_", "1">>, <<"a">>, <<" ">>, <<"\t">>, <<"!">>, <<"-">>}

\* The texts of at most MaxPieces pieces.
TokenTexts ==
    {Flatten(pieces) : pieces \in UNION {[1..n -> TokenPieces] : n \in 0..MaxPieces}}

\* A caller that holds a text.
TokenizeInit ==
    /\ journalLogs = <<>>
    /\ supplied = journalLogs
    /\ pc = "text"
    /\ \E text \in TokenTexts :
           call = [op |-> "tokenize", query |-> text, topK |-> 0, alpha |-> Undefined]
    /\ semanticResults = <<>>
    /\ keywordResults = <<>>
    /\ settled = <<>>
    /\ result = <<>>
    /\ reused = FALSE
    /\ answer = NoAnswer
    /\ sent = <<>>
    /\ aiOutcome = "none"
    /\ NoSession
    /\ NoPage

\* this.tokenize(text)
Tokenize ==
    /\ pc = "text"
    /\ result' = tokenize(call.query)
    /\ pc' = "tokenized"
    /\ UNCHANGED <<journalLogs, supplied, call, semanticResults, keywordResults, settled,
                   reused, answerVars, sessionVars, pageVars>>

TokenizeNext == Tokenize

\* The tokenizer applied to a text.
TokenizeSpec == TokenizeInit /\ [][TokenizeNext]_vars

\* ------------------------------------------------------- the session worker

\* alpha: number = 0.5, the default of performHybridSearch
DefaultAlpha == Scale \div 2

\* url.pathname === '/add'
LegacyAddPath == <<"/">> \o ActionAdd

\* url.pathname === "/entries"
LegacyEntriesPath == <<"/">> \o ActionEntries

\* The pathnames fetch of the legacy session object is called with: its own
\* two, and the one its worker passes on.
LegacyPaths ==
    {LegacyAddPath, LegacyEntriesPath, Pathname(SessionPath(<<"a", "@", "x">>, ActionAdd))}

\* new Response("Not found", { status: 404 })
NotFound == Response("notFound", 404, "absent", <<>>, <<>>, NoAnswer, 0)

\* The request ended with an exception nothing caught.
LegacyError == Response("error", 500, "absent", <<>>, <<>>, NoAnswer, 0)

\* The add requests handled since the worker went live.
AddsHandled == Len(SelectSeq(adds, LAMBDA a : ~a.earlier))

\* A worker is live, the one of backend/src (pc = "session") or the one of
\* src/src (pc = "legacy").  User a's session object holds the entries of
\* earlier days, one less than it keeps, whose inserts the database refused;
\* user b's does not exist yet.  The legacy worker also starts without any
\* request handled.
SessionInit ==
    /\ journalLogs = <<>>
    /\ supplied = <<>>
    /\ call = NoCall
    /\ semanticResults = <<>>
    /\ keywordResults = <<>>
    /\ settled = <<>>
    /\ result = <<>>
    /\ reused = FALSE
    /\ answer = NoAnswer
    /\ sent = <<>>
    /\ aiOutcome = "none"
    /\ request = NoRequest
    /\ response = NoResponse
    /\ NoPage
    /\ journal_entries = <<>>
    /\ \/ /\ pc = "legacy"
          /\ clock = 1
          /\ entries = <<>>
          /\ adds = <<>>
       \/ /\ pc = "legacy"
          /\ clock = LegacyMaxEntries
          /\ entries = MapSet(<<>>, <<"a", "@", "x">>,
                              SubSeq(EarlierEntries, 1, LegacyMaxEntries - 1))
          /\ adds = [t \in 1..(LegacyMaxEntries - 1) |->
                        Added(<<"a", "@", "x">>, PathPart(LegacyAddPath, 2), EarlierEntries[t],
                              TRUE, 500, TRUE)]
       \/ /\ pc = "session"
          /\ clock = maxEntries
          /\ entries = MapSet(<<>>, <<"a", "@", "x">>, EarlierEntries)
          /\ adds = [t \in 1..(maxEntries - 1) |->
                        Added(<<"a", "@", "x">>, <<"a", "@", "x">>, EarlierEntries[t], TRUE,
                              500, TRUE)]

\* POST /session/<userId>/add (UserSession.ts lines 34-95): the entry is
\* pushed first, then inserted; a body that is no JSON, a timestamp that is no
\* time and a failing insert are answered with status 500.
Add(pathname, body, insertOk) ==
    /\ pc = "session"
    /\ SessionAction(pathname) = ActionAdd
    /\ AddsHandled < MaxAdds
    /\ request' = Request("add", SessionUserId(pathname), <<>>, "unused")
    /\ clock' = clock + 1
    /\ IF ~body.parsed
       THEN /\ response' = AddFailed
            /\ adds' = Append(adds, Added(SessionName(pathname), SessionUserId(pathname),
                                          Entry(<<>>, Undefined), FALSE, 500, FALSE))
            /\ UNCHANGED <<entries, journal_entries>>
       ELSE \E entry \in {Entry(body.text, TimestampOf(body, clock))} :
            \E buffer \in {PushEntry(BufferOf(entries, SessionName(pathname)), entry,
                                     maxEntries)} :
                /\ entries' = MapSet(entries, SessionName(pathname), buffer)
                /\ IF ValidTime(entry.timestamp) /\ insertOk
                   THEN /\ journal_entries' =
                               Append(journal_entries,
                                      Row(SessionUserId(pathname), entry.text, entry.timestamp))
                        /\ response' = AddSaved(buffer)
                        /\ adds' = Append(adds, Added(SessionName(pathname),
                                                      SessionUserId(pathname), entry, TRUE,
                                                      200, FALSE))
                   ELSE /\ response' = AddFailed
                        /\ adds' = Append(adds, Added(SessionName(pathname),
                                                      SessionUserId(pathname), entry, TRUE,
                                                      500, FALSE))
                        /\ UNCHANGED journal_entries
    /\ pc' = "responded"
    /\ UNCHANGED <<journalLogs, supplied, call, semanticResults, keywordResults, settled,
                   result, reused, answerVars, pageVars>>

\* GET /session/<userId>/entries (lines 97-138)
GetEntries(pathname, databaseOk) ==
    /\ pc = "session"
    /\ SessionAction(pathname) = ActionEntries
    /\ request' = Request("entries", SessionUserId(pathname), <<>>,
                          IF databaseOk THEN "ok" ELSE "fails")
    /\ response' = EntriesResponse(IF databaseOk
                                   THEN SelectEntries(journal_entries, SessionUserId(pathname))
                                   ELSE <<>>,
                                   BufferOf(entries, SessionName(pathname)), databaseOk)
    /\ pc' = "responded"
    /\ UNCHANGED <<journalLogs, supplied, call, semanticResults, keywordResults, settled,
                   result, reused, answerVars, journal_entries, entries, adds, clock,
                   pageVars>>

\* POST /session/<userId>/search (lines 140-226): the rows of the user become
\* the corpus of a new RAGPipeline, the hybrid search runs with topK 5 and the
\* answer is generated for what it returned.
Search(pathname, body, databaseOk) ==
    /\ pc = "session"
    /\ SessionAction(pathname) = ActionSearch
    /\ request' = Request("search", SessionUserId(pathname), body.query,
                          IF databaseOk THEN "ok" ELSE "fails")
    /\ IF ~body.parsed \/ ~databaseOk
       THEN /\ response' = SearchFailed
            /\ UNCHANGED <<journalLogs, supplied, call, result, answerVars>>
       ELSE \E logs \in {SelectJournalLogs(journal_entries, SessionUserId(pathname))} :
            IF Len(logs) = 0
            THEN /\ response' = SearchEmpty
                 /\ UNCHANGED <<journalLogs, supplied, call, result, answerVars>>
            ELSE \E results \in {performHybridSearch(logs, body.query, SearchTopK,
                                                     DefaultAlpha).out} :
                 \E outcome \in AIOutcomes :
                     /\ journalLogs' = logs
                     /\ supplied' = logs
                     /\ call' = [op |-> "hybrid", query |-> body.query, topK |-> SearchTopK,
                                 alpha |-> DefaultAlpha]
                     /\ result' = results
                     /\ answer' = generateAIAnswer(body.query, results, outcome)
                     /\ sent' = IF Len(results) = 0 THEN <<>>
                                ELSE <<Prompt(body.query, results)>>
                     /\ aiOutcome' = IF Len(results) = 0 THEN "none" ELSE outcome
                     /\ response' = SearchDone(results,
                                               generateAIAnswer(body.query, results, outcome),
                                               Len(logs))
    /\ pc' = "responded"
    /\ UNCHANGED <<semanticResults, keywordResults, settled, reused, journal_entries,
                   entries, adds, clock, pageVars>>

\* fetch of the session object of src/src (src/src/UserSession.ts lines
\* 10-53), called on the object of that name: POST /add pushes the entry and
\* then inserts it, GET /entries gives the buffer, anything else is not
\* found.  No exception is caught: a body that is no JSON and a failing insert
\* end the request with an error.
LegacyFetch(name, method, pathname, body, insertOk) ==
    /\ pc = "legacy"
    /\ request' = Request("legacy", PathPart(pathname, 2), <<>>, "unused")
    /\ IF method = "POST" /\ pathname = LegacyAddPath
       THEN /\ AddsHandled < MaxAdds
            /\ clock' = clock + 1
            /\ IF ~body.parsed
               THEN /\ response' = LegacyError
                    /\ adds' = Append(adds, Added(name, PathPart(pathname, 2),
                                                  Entry(<<>>, Undefined), FALSE, 500, FALSE))
                    /\ UNCHANGED entries
               ELSE \E buffer \in {PushEntry(BufferOf(entries, name),
                                             Entry(body.text, clock), LegacyMaxEntries)} :
                        /\ entries' = MapSet(entries, name, buffer)
                        /\ response' = IF insertOk THEN AddSaved(buffer) ELSE LegacyError
                        /\ adds' = Append(adds, Added(name, PathPart(pathname, 2),
                                                      Entry(body.text, clock), TRUE,
                                                      IF insertOk THEN 200 ELSE 500, FALSE))
       ELSE /\ response' = IF method = "GET" /\ pathname = LegacyEntriesPath
                           THEN Response("entries", 200, "absent", BufferOf(entries, name),
                                         <<>>, NoAnswer, 0)
                           ELSE NotFound
            /\ UNCHANGED <<entries, adds, clock>>
    /\ pc' = "legacyResponded"
    /\ UNCHANGED <<journalLogs, supplied, call, semanticResults, keywordResults, settled,
                   result, reused, answerVars, journal_entries, pageVars>>

\* The handler returned its Response: the request is over and the pipeline it
\* constructed is dropped.  The rows and the session objects stay.
SendResponse ==
    /\ pc \in {"responded", "legacyResponded"}
    /\ pc' = IF pc = "responded" THEN "session" ELSE "legacy"
    /\ request' = NoRequest
    /\ response' = NoResponse
    /\ journalLogs' = <<>>
    /\ supplied' = <<>>
    /\ call' = NoCall
    /\ result' = <<>>
    /\ answer' = NoAnswer
    /\ sent' = <<>>
    /\ aiOutcome' = "none"
    /\ UNCHANGED <<semanticResults, keywordResults, settled, reused, journal_entries,
                   entries, adds, clock, pageVars>>

SessionNext ==
    \/ \E userId \in UserEmails, body \in AddBodies(clock), insertOk \in BOOLEAN :
           Add(Pathname(SessionPath(userId, ActionAdd)), body, insertOk)
    \/ \E userId \in UserEmails, databaseOk \in BOOLEAN :
           GetEntries(Pathname(SessionPath(userId, ActionEntries)), databaseOk)
    \/ \E userId \in RequestUserIds, body \in SearchBodies, databaseOk \in BOOLEAN :
           Search(Pathname(SessionPath(userId, ActionSearch)), body, databaseOk)
    \/ \E name \in UserEmails, method \in {"POST", "GET"}, pathname \in LegacyPaths,
          body \in AddBodies(clock), insertOk \in BOOLEAN :
           LegacyFetch(name, method, pathname, body, insertOk)
    \/ SendResponse

\* A worker serving the requests of its clients.
SessionSpec == SessionInit /\ [][SessionNext]_vars

\* ---------------------------------------------------------------- the pages

\* A signed-in user opened one of the two pages.
PagesInit ==
    /\ journalLogs = <<>>
    /\ supplied = <<>>
    /\ call = NoCall
    /\ semanticResults = <<>>
    /\ keywordResults = <<>>
    /\ settled = <<>>
    /\ result = <<>>
    /\ reused = FALSE
    /\ answer = NoAnswer
    /\ sent = <<>>
    /\ aiOutcome = "none"
    /\ NoSession
    /\ user \in SignedIn
    /\ \/ /\ pc = "sessionPage"
          /\ sessionPage = OpenSessionPage
          /\ queryPage = ClosedQueryPage
       \/ /\ pc = "queryPage"
          /\ sessionPage = ClosedSessionPage
          /\ queryPage = OpenQueryPage

\* The user types into the text area of the session page.
TextChange(text) ==
    /\ pc = "sessionPage"
    /\ sessionPage' = handleTextChange(sessionPage, text)
    /\ UNCHANGED <<journalLogs, supplied, pc, call, semanticResults, keywordResults, settled,
                   result, reused, answerVars, sessionVars, user, queryPage>>

\* The user clicks Save; the button stays enabled while a save is under way.
Save ==
    /\ pc = "sessionPage"
    /\ sessionPage.saving < MaxSaving
    /\ sessionPage' = handleSave(sessionPage, user)
    /\ UNCHANGED <<journalLogs, supplied, pc, call, semanticResults, keywordResults, settled,
                   result, reused, answerVars, sessionVars, user, queryPage>>

\* The fetch of a handleSave call ended.
SaveSettles(outcome) ==
    /\ pc = "sessionPage"
    /\ sessionPage.saving > 0
    /\ sessionPage' = SaveSettled(sessionPage, outcome)
    /\ UNCHANGED <<journalLogs, supplied, pc, call, semanticResults, keywordResults, settled,
                   result, reused, answerVars, sessionVars, user, queryPage>>

\* The user types into the query input; the form is rendered while the page
\* neither loads nor shows results (part_005 lines 174-185).
QueryChange(text) ==
    /\ pc = "queryPage"
    /\ ~queryPage.isLoading /\ ~queryPage.showResults
    /\ queryPage' = setQuery(queryPage, text)
    /\ UNCHANGED <<journalLogs, supplied, pc, call, semanticResults, keywordResults, settled,
                   result, reused, answerVars, sessionVars, user, sessionPage>>

\* The user submits the form.
Submit ==
    /\ pc = "queryPage"
    /\ ~queryPage.isLoading /\ ~queryPage.showResults
    /\ queryPage' = handleSubmit(queryPage, user)
    /\ UNCHANGED <<journalLogs, supplied, pc, call, semanticResults, keywordResults, settled,
                   result, reused, answerVars, sessionVars, user, sessionPage>>

\* The fetch of handleSubmit ended.
SubmitSettles(outcome, results, answerText) ==
    /\ pc = "queryPage"
    /\ queryPage.isLoading
    /\ queryPage' = SubmitSettled(queryPage, outcome, results, answerText)
    /\ UNCHANGED <<journalLogs, supplied, pc, call, semanticResults, keywordResults, settled,
                   result, reused, answerVars, sessionVars, user, sessionPage>>

\* The user clicks the button of the results view.
NewQuery ==
    /\ pc = "queryPage"
    /\ ~queryPage.isLoading /\ queryPage.showResults
    /\ queryPage' = handleNewQuery(queryPage)
    /\ UNCHANGED <<journalLogs, supplied, pc, call, semanticResults, keywordResults, settled,
                   result, reused, answerVars, sessionVars, user, sessionPage>>

PagesNext ==
    \/ \E text \in TypedTexts : TextChange(text)
    \/ Save
    \/ \E outcome \in FetchOutcomes : SaveSettles(outcome)
    \/ \E text \in TypedQueries : QueryChange(text)
    \/ Submit
    \/ \E outcome \in FetchOutcomes, results \in ResultLists, answerText \in AnswerTexts :
           SubmitSettles(outcome, results, answerText)
    \/ NewQuery

\* The pages with a user who may stop at any time.
PagesSpec == PagesInit /\ [][PagesNext]_vars

\* The pages with the one thing that does not wait for the user: a fetch that
\* was sent ends, with a response or with a rejection.
LivePagesSpec ==
    /\ PagesInit
    /\ [][PagesNext]_vars
    /\ WF_vars(\E outcome \in FetchOutcomes, results \in ResultLists,
                  answerText \in AnswerTexts : SubmitSettles(outcome, results, answerText))
    /\ WF_vars(\E outcome \in FetchOutcomes : SaveSettles(outcome))

\* -------------------------------------------------------------------- claims

HybridDone == pc = "done" /\ call.op = "hybrid"

KeywordDone == pc = "done" /\ call.op = "keyword"

SemanticDone == pc = "done" /\ call.op = "semantic"

\* The entry a result was made from: its fields without the scores.
SameEntry(r, e) == r.date = e.date /\ r.day = e.day /\ r.text = e.text

\* C1: every result of hybridSearch carries a hybrid_score that is a defined
\* number in [0, 1], for every alpha in [0, 1].
C1_HybridScoreInUnitInterval ==
    HybridDone =>
        \A i \in 1..Len(result) :
            /\ IsNumber(result[i].hybrid_score)
            /\ 0 <= result[i].hybrid_score
            /\ result[i].hybrid_score <= Scale

\* C2: with alpha = 0.0 hybridSearch returns the entries of
\* keywordSearch(query, topK) in the same order, each with hybrid_score =
\* keyword_score / maxKeyword, and nothing else.
C2_AlphaZeroIsKeywordRanking ==
    (HybridDone /\ call.alpha = 0) =>
        \E kw \in {performKeywordSearch(journalLogs, call.query, call.topK).out} :
            /\ Len(result) = Len(kw)
            /\ \A i \in 1..Len(result) :
                   /\ i <= Len(kw)
                   /\ SameEntry(result[i], kw[i])
                   /\ result[i].hybrid_score = FDiv(kw[i].keyword_score, kw[1].keyword_score)

\* C3: with alpha = 1.0 hybridSearch returns the entries of
\* semanticSearch(query, topK) in the same order, each with hybrid_score =
\* similarity_score / maxSemantic, and 0 when maxSemantic is 0.
C3_AlphaOneIsSemanticRanking ==
    (HybridDone /\ call.alpha = Scale) =>
        \E sem \in {performSemanticSearch(journalLogs, call.query, call.topK).out} :
            /\ Len(result) = Len(sem)
            /\ \A i \in 1..Len(result) :
                   /\ i <= Len(sem)
                   /\ SameEntry(result[i], sem[i])
                   /\ result[i].hybrid_score =
                          (IF OrZero(sem[1].similarity_score) > 0
                           THEN FDiv(OrZero(sem[i].similarity_score), sem[1].similarity_score)
                           ELSE 0)

\* C4: for a non-empty corpus and a query without tokens, semanticSearch
\* gives every returned document the similarity_score 0.
C4_EmptyTokenQueryScoresZero ==
    (SemanticDone /\ Len(journalLogs) > 0 /\ tokenize(call.query) = <<>>) =>
        \A i \in 1..Len(result) : result[i].similarity_score = 0

\* C5: on an empty corpus every search operation returns the empty sequence,
\* and so do the sub-searches of a hybrid call.
C5_EmptyCorpusEmptyResult ==
    Len(journalLogs) = 0 =>
        /\ pc = "done" => result = <<>>
        /\ semanticResults = <<>>
        /\ keywordResults = <<>>

C5_Witness == HybridDone /\ Len(journalLogs) = 0 /\ result = <<>>

\* C6: every entry keywordSearch returns, standalone or as the sub-search of
\* a hybrid call, holds at least one token of the query as a substring of its
\* lowercased text.
C6_KeywordResultHoldsAToken ==
    \A r \in (IF KeywordDone THEN Range(result) ELSE {}) \cup Range(keywordResults) :
        \E t \in Range(tokenize(call.query)) : Includes(toLowerCase(r.text), t)

\* A returned entry that holds the whole query, of two tokens, as a phrase.
C6_Witness ==
    /\ KeywordDone
    /\ Len(tokenize(call.query)) = 2
    /\ \E i \in 1..Len(result) :
           Includes(toLowerCase(result[i].text), toLowerCase(call.query))

\* The sum over the query tokens of their matches in the lowercased text.
MatchTotal(text, tokens) ==
    SumSeq([i \in 1..Len(tokens) |-> Num(CountMatches(text, tokens[i]))])

\* C7: keyword_score = the sum of the matches of the query tokens, plus the
\* number of query tokens, once, if the text holds the lowercased query.
C7_PhraseBonusAddedOnce ==
    KeywordDone =>
        \A i \in 1..Len(result) :
            result[i].keyword_score =
                MatchTotal(toLowerCase(result[i].text), tokenize(call.query))
                + (IF Includes(toLowerCase(result[i].text), toLowerCase(call.query))
                   THEN Num(Len(tokenize(call.query))) ELSE 0)

\* Corpus index a ranks before corpus index b: a greater score, or the same
\* score and an earlier place in the corpus.
RanksBefore(score, a, b) == score[a] > score[b] \/ (score[a] = score[b] /\ a < b)

\* ranked is the list of the first topK corpus indexes of positive score in
\* descending score order, ties in corpus order.
IsKeywordRanking(ranked, score, topK) ==
    /\ \A i \in 1..Len(ranked) : score[ranked[i]] > 0
    /\ \A i, j \in 1..Len(ranked) : i < j => RanksBefore(score, ranked[i], ranked[j])
    /\ \A d \in 1..Len(score) :
           (score[d] > 0 /\ d \notin Range(ranked)) =>
               /\ Len(ranked) = topK
               /\ \A i \in 1..Len(ranked) : RanksBefore(score, ranked[i], d)
    /\ Len(ranked) <= topK

\* C8: keywordSearch returns exactly the first topK entries of positive
\* keyword_score, by descending score, ties in corpus order; on the running /
\* coffee / running corpus with query "running" and topK = 2 these are the
\* entries of 2024-01-01 and 2024-01-03.
C8_KeywordRanking ==
    KeywordDone =>
        /\ \E ranked \in [1..Len(result) -> 1..Len(journalLogs)] :
               /\ IsKeywordRanking(ranked,
                                   [d \in 1..Len(journalLogs) |->
                                       KeywordScore(journalLogs[d].text, call.query)],
                                   call.topK)
               /\ \A i \in 1..Len(result) :
                      /\ SameEntry(result[i], journalLogs[ranked[i]])
                      /\ result[i].keyword_score =
                             KeywordScore(journalLogs[ranked[i]].text, call.query)
        /\ (journalLogs = ScenarioCorpus /\ call.query = QueryRunning /\ call.topK = 2) =>
               [i \in 1..Len(result) |-> result[i].date] = <<"2024-01-01", "2024-01-03">>

C8_Witness ==
    /\ KeywordDone
    /\ journalLogs = ScenarioCorpus
    /\ call.query = QueryRunning
    /\ call.topK = 2
    /\ Len(result) = 2

\* What the call returns on a pipeline freshly constructed with the corpus.
FreshResult(corpus, c) ==
    CASE c.op = "semantic" -> performSemanticSearch(corpus, c.query, c.topK).out
      [] c.op = "keyword" -> performKeywordSearch(corpus, c.query, c.topK).out
      [] c.op = "bm25" -> performBM25Search(corpus, c.query, c.topK).out
      [] c.op = "hybrid" -> performHybridSearch(corpus, c.query, c.topK, c.alpha).out

\* C9: whatever calls were made before on the pipeline, a call returns what
\* the same call returns as the first call on a pipeline constructed with the
\* same corpus.
C9_SameCallSameResult == pc = "done" => result = FreshResult(supplied, call)

\* A call that returned entries on a pipeline that has served calls before.
C9_Witness == pc = "done" /\ reused /\ Len(result) > 0

\* C10: the merge of a hybrid call runs after both sub-searches, for 2 * topK
\* results each, have completed, and the call returns the same list in either
\* order of completion.
C10_JoinThenMerge ==
    HybridDone =>
        /\ Range(settled) = {"semantic", "keyword"}
        /\ semanticResults = performSemanticSearch(supplied, call.query, 2 * call.topK).out
        /\ keywordResults = performKeywordSearch(supplied, call.query, 2 * call.topK).out
        /\ result = MergeHybrid(semanticResults, keywordResults, call.topK, call.alpha)

\* A hybrid call whose keyword sub-search completed first.
C10_Witness == HybridDone /\ settled = <<"keyword", "semantic">> /\ Len(result) > 0

BM25Done == pc = "done" /\ call.op = "bm25"

\* this.journalLogs.map(entry => entry.text)
Documents(logs) == [i \in 1..Len(logs) |-> logs[i].text]

\* The query vector performSemanticSearch builds for the documents.
SemanticQueryVector(documents, queryTokens) ==
    QueryVector(queryTokens, Vocabulary(documents, queryTokens),
                calculateTFIDF(documents), Len(documents))

\* The vector performSemanticSearch builds for document d.
SemanticDocVector(documents, queryTokens, d) ==
    DocVector(d, Vocabulary(documents, queryTokens), calculateTFIDF(documents),
              Len(documents))

IsZeroVector(vec) == \A i \in 1..Len(vec) : vec[i] = 0

InUnitInterval(x) == IsNumber(x) /\ 0 <= x /\ x <= Scale

\* C11: for a non-empty corpus and a query with at least one token, the
\* similarity of every document, and the similarity_score of every returned
\* entry, is a number in [0,1], and it is 0 for a document whose vector is
\* zero or when the query vector is zero.
C11_SimilarityInUnitInterval ==
    (SemanticDone /\ Len(journalLogs) > 0 /\ tokenize(call.query) # <<>>) =>
        /\ \A i \in 1..Len(result) : InUnitInterval(result[i].similarity_score)
        /\ \A d \in 1..Len(journalLogs) :
               /\ InUnitInterval(Similarities(journalLogs, call.query)[d])
               /\ (\/ IsZeroVector(SemanticQueryVector(Documents(journalLogs),
                                                       tokenize(call.query)))
                   \/ IsZeroVector(SemanticDocVector(Documents(journalLogs),
                                                     tokenize(call.query), d)))
                  => Similarities(journalLogs, call.query)[d] = 0

\* A semantic call that returned a positive similarity computed from negative
\* idf weights (one document: every weight is ln(1/2)), and one that returned
\* a 0 for a zero vector.
C11_Witness ==
    /\ SemanticDone
    /\ Len(journalLogs) = 1
    /\ Len(result) = 1
    /\ result[1].similarity_score > 0
    /\ \E v \in 1..Len(SemanticDocVector(Documents(journalLogs), tokenize(call.query), 1)) :
           SemanticDocVector(Documents(journalLogs), tokenize(call.query), 1)[v] < 0

\* The idf weight performSemanticSearch gives every term of the vocabulary.
SemanticIdfOf(documents, queryTokens, term) ==
    SemanticIdf(calculateTFIDF(documents), term, Len(documents))

\* The number of documents that contain the term.
SemanticDf(documents, term) == DocFrequency(calculateTFIDF(documents), term)

\* C12: the idf weight of every term that occurs in a document is
\* ln(N / df + 1) (so it is positive), and a query of one token that occurs in
\* a document has a query vector that is not zero.
C12_IdfIsSmoothedLog ==
    (SemanticDone /\ Len(journalLogs) > 0) =>
        /\ \A term \in Range(Vocabulary(Documents(journalLogs), tokenize(call.query))) :
               SemanticDf(Documents(journalLogs), term) > 0 =>
                   /\ SemanticIdfOf(Documents(journalLogs), tokenize(call.query), term)
                        = MathLogRatio(Len(journalLogs)
                                         + SemanticDf(Documents(journalLogs), term),
                                       SemanticDf(Documents(journalLogs), term))
                   /\ SemanticIdfOf(Documents(journalLogs), tokenize(call.query), term) > 0
        /\ (/\ Len(tokenize(call.query)) = 1
            /\ SemanticDf(Documents(journalLogs), tokenize(call.query)[1]) > 0)
           => ~IsZeroVector(SemanticQueryVector(Documents(journalLogs),
                                                tokenize(call.query)))

\* this.tokenize(entry.text) for every entry
DocTokens(logs) == [d \in 1..Len(logs) |-> tokenize(logs[d].text)]

\* The idf performBM25Search gives a query term (lines 204-209).
BM25IdfOf(docTokens, term) ==
    BM25Idf(Len(docTokens), BM25DocFrequency(docTokens, term))

\* What the query term adds to the score of document d if the term occurs tf
\* times in it, the length of the document and the corpus statistics as they
\* are (lines 222-228).
BM25ShareAt(docTokens, d, term, tf) ==
    IF tf > 0
    THEN BM25Term(BM25IdfOf(docTokens, term), tf,
                  BM25K(Len(docTokens[d]), AvgDocLength(docTokens)))
    ELSE 0

\* The term frequencies tf for which tf + 1 still fits the document.
TfSteps(docTokens, d) == 0..(Len(docTokens[d]) - 1)

\* C13 as stated: for every query term, one more occurrence of the term never
\* lowers the BM25 score of a document.
C13_BM25NonDecreasingInTf ==
    BM25Done =>
        \A d \in 1..Len(journalLogs) :
            \A term \in Range(tokenize(call.query)) :
                \A tf \in TfSteps(DocTokens(journalLogs), d) :
                    BM25ShareAt(DocTokens(journalLogs), d, term, tf + 1)
                        >= BM25ShareAt(DocTokens(journalLogs), d, term, tf)

\* C13 amended: one more occurrence of a query term never lowers the score
\* if the idf of the term is not negative (the term is in at most half of the
\* documents), and never raises it if the idf is negative.
C13_BM25MonotoneBySignOfIdf ==
    BM25Done =>
        \A d \in 1..Len(journalLogs) :
            \A term \in Range(tokenize(call.query)) :
                \A tf \in TfSteps(DocTokens(journalLogs), d) :
                    IF BM25IdfOf(DocTokens(journalLogs), term) >= 0
                    THEN BM25ShareAt(DocTokens(journalLogs), d, term, tf + 1)
                             >= BM25ShareAt(DocTokens(journalLogs), d, term, tf)
                    ELSE BM25ShareAt(DocTokens(journalLogs), d, term, tf + 1)
                             <= BM25ShareAt(DocTokens(journalLogs), d, term, tf)

\* A BM25 call with a query term of positive idf that a document holds, whose
\* share grows with the term frequency, and a query term of negative idf.
C13_Witness ==
    /\ BM25Done
    /\ \E d \in 1..Len(journalLogs) :
           \E term \in Range(tokenize(call.query)) :
               /\ BM25IdfOf(DocTokens(journalLogs), term) > 0
               /\ CountOf(DocTokens(journalLogs)[d], term) > 0
               /\ BM25ShareAt(DocTokens(journalLogs), d, term, 2)
                      > BM25ShareAt(DocTokens(journalLogs), d, term, 1)
    /\ \E term \in Range(tokenize(call.query)) :
           BM25IdfOf(DocTokens(journalLogs), term) < 0

\* C14: a hybrid call returns at most topK results, each with a hybrid_score
\* set, and no result is followed by one with a strictly greater hybrid_score
\* (a NaN score compares as JavaScript compares it: it is neither greater nor
\* smaller than any score).
C14_HybridTopKDescending ==
    HybridDone =>
        /\ Len(result) <= call.topK
        /\ \A i \in 1..Len(result) : result[i].hybrid_score # Undefined
        /\ \A i \in 1..Len(result) : \A j \in (i + 1)..Len(result) :
               ~(/\ IsNumber(result[i].hybrid_score)
                 /\ IsNumber(result[j].hybrid_score)
                 /\ result[j].hybrid_score > result[i].hybrid_score)

\* A hybrid call that found more than topK entries and returned topK of them
\* with different scores.
C14_Witness ==
    /\ HybridDone
    /\ Len(result) = call.topK
    /\ Len(result) >= 2
    /\ Len(journalLogs) > call.topK
    /\ IsNumber(result[1].hybrid_score)
    /\ IsNumber(result[2].hybrid_score)
    /\ result[1].hybrid_score > result[2].hybrid_score

\* C15: no two results of a hybrid call have the same date and the same day.
C15_HybridResultsDistinctByDateDay ==
    HybridDone =>
        \A i \in 1..Len(result) : \A j \in 1..Len(result) :
            (result[i].date = result[j].date /\ result[i].day = result[j].day) => i = j

\* A hybrid call on a corpus with two entries of the same date and day that
\* returned one entry for them although topK allowed two.
C15_Witness ==
    /\ HybridDone
    /\ Len(journalLogs) = 2
    /\ journalLogs[1].date = journalLogs[2].date
    /\ journalLogs[1].day = journalLogs[2].day
    /\ call.topK = 2
    /\ Len(result) = 1

\* combineSearchResults has returned: result holds the combined list.
Combined == pc \in {"combined", "awaiting", "answered"}

\* The identity of a result for combineSearchResults: its date and the first
\* 50 characters of its text.
SameIdentity(a, b) == a.date = b.date /\ substring(a.text, 50) = substring(b.text, 50)

InList(r, list) == \E n \in 1..Len(list) : SameIdentity(list[n], r)

\* The list without the results whose identity an earlier result has.
FirstOfIdentity(list) ==
    SelectSeq([i \in 1..Len(list) |->
                  [at |-> i,
                   first |-> \A j \in 1..(i - 1) : ~SameIdentity(list[j], list[i])]],
              LAMBDA x : x.first)

\* C16: the combined list has at most 5 results, no two of one identity; it
\* is the first 5 of: the identities of the semantic list in its order, then
\* the identities only the keyword list has, in its order; a keyword-only
\* result is in it only if the semantic list has fewer than 5 identities.
C16_CombineAtMostFiveDistinct ==
    Combined =>
        /\ Len(result) <= 5
        /\ \A i \in 1..Len(result) : \A j \in 1..Len(result) :
               SameIdentity(result[i], result[j]) => i = j
        /\ Len(result) =
               IF Len(FirstOfIdentity(semanticResults \o keywordResults)) < 5
               THEN Len(FirstOfIdentity(semanticResults \o keywordResults)) ELSE 5
        /\ \A i \in 1..Len(result) :
               SameIdentity(result[i],
                            (semanticResults \o keywordResults)
                                [FirstOfIdentity(semanticResults \o keywordResults)[i].at])
        /\ \A i \in 1..Len(result) :
               ~InList(result[i], semanticResults)
                   => Len(FirstOfIdentity(semanticResults)) < 5

\* Lists with more than 5 identities between them, combined into 5 results
\* the last of which only the keyword list has.
C16_Witness ==
    /\ pc = "combined"
    /\ Len(FirstOfIdentity(semanticResults \o keywordResults)) > 5
    /\ Len(result) = 5
    /\ ~InList(result[5], semanticResults)

\* C17: a combined result whose identity the semantic list has is a semantic
\* result tagged semantic, never the keyword result of that identity; a
\* result tagged keyword is a keyword result whose identity the semantic list
\* lacks; every result is tagged semantic or keyword.
C17_SemanticWinsOnCollision ==
    Combined =>
        \A i \in 1..Len(result) :
            /\ result[i].searchType \in {"semantic", "keyword"}
            /\ InList(result[i], semanticResults) =>
                   /\ result[i].searchType = "semantic"
                   /\ \E n \in 1..Len(semanticResults) :
                          result[i] = [semanticResults[n] EXCEPT !.searchType = "semantic"]
            /\ result[i].searchType = "keyword" =>
                   /\ ~InList(result[i], semanticResults)
                   /\ \E n \in 1..Len(keywordResults) :
                          result[i] = [keywordResults[n] EXCEPT !.searchType = "keyword"]

\* A semantic and a keyword result of one identity whose texts differ behind
\* the 50th character, combined: the list holds the semantic one.
C17_Witness ==
    /\ pc = "combined"
    /\ \E n \in 1..Len(semanticResults) : \E m \in 1..Len(keywordResults) :
           /\ SameIdentity(semanticResults[n], keywordResults[m])
           /\ semanticResults[n].text # keywordResults[m].text
           /\ \E i \in 1..Len(result) :
                  /\ result[i].text = semanticResults[n].text
                  /\ result[i].searchType = "semantic"
    /\ \E i \in 1..Len(result) : result[i].searchType = "keyword"

\* An entry no search has written on.
Unscored(entry) ==
    /\ entry.similarity_score = Undefined
    /\ entry.keyword_score = Undefined
    /\ entry.bm25_score = Undefined
    /\ entry.hybrid_score = Undefined
    /\ entry.searchType = "undefined"

\* C18: whatever calls were made, the entries the pipeline holds are the
\* entries it was constructed with, none with a score or a tag written on it,
\* and combineSearchResults leaves the two lists it was given as the
\* sub-searches returned them.
C18_InputsNeverMutated ==
    /\ journalLogs = supplied
    /\ \A i \in 1..Len(journalLogs) : Unscored(journalLogs[i])
    /\ pc = "combined" =>
           /\ semanticResults
                  = performSemanticSearch(supplied, call.query, 2 * call.topK).out
           /\ keywordResults
                  = performKeywordSearch(supplied, call.query, 2 * call.topK).out
           /\ \A i \in 1..Len(semanticResults) : semanticResults[i].searchType = "undefined"
           /\ \A i \in 1..Len(keywordResults) : keywordResults[i].searchType = "undefined"

\* A pipeline that has served earlier calls and has just combined the lists
\* of a hybrid call into scored, tagged results.
C18_Witness ==
    /\ pc = "combined"
    /\ reused
    /\ Len(journalLogs) > 0
    /\ Len(keywordResults) > 0
    /\ Len(result) > 0
    /\ result[1].searchType = "semantic"

\* C19: generateAIAnswer never hands the failure of the external call on: for
\* an empty result list it returns the not-found answer and no prompt was
\* sent; when the external call rejected or returned no response text it
\* returns the fallback answer computed from the query and the results.
C19_AnswerToleratesAIFailure ==
    pc = "answered" =>
        /\ answer.kind # "error"
        /\ Len(result) = 0 =>
               /\ answer = NotFoundAnswer(call.query)
               /\ sent = <<>>
               /\ aiOutcome = "none"
        /\ (Len(result) > 0 /\ aiOutcome # "responseText") =>
               /\ answer.kind = "fallback"
               /\ answer = generateFallbackAnswer(call.query, result)
               /\ answer.resultCount = Len(result)
               /\ Len(answer.lines) = (IF Len(result) < 3 THEN Len(result) ELSE 3)

\* The external call rejected and the fallback answer was returned for a
\* non-empty list; the list of another caller was empty (no prompt sent).
C19_Witness ==
    /\ pc = "answered"
    /\ aiOutcome = "rejects"
    /\ Len(result) > 1
    /\ answer.kind = "fallback"
    /\ Len(sent) = 1

\* The first score field of a result that is set, in the order
\* similarity_score, keyword_score, hybrid_score; 0 if none is.
FirstPopulatedScore(r) ==
    IF r.similarity_score # Undefined THEN r.similarity_score
    ELSE IF r.keyword_score # Undefined THEN r.keyword_score
    ELSE IF r.hybrid_score # Undefined THEN r.hybrid_score
    ELSE 0

\* C20: the relevance printed for a result in the context of the prompt is
\* round(score * 100), score being the first score field that is set; a
\* similarity_score of 0 prints as 0.
C20_RelevanceOfFirstPopulatedScore ==
    \A p \in 1..Len(sent) :
        \A i \in 1..Len(sent[p].context) :
            sent[p].context[i].relevance
                = (FirstPopulatedScore(result[i]) * 100 + Scale \div 2) \div Scale

\* Positions i..j of s hold a maximal run of word characters.
IsWordRun(s, i, j) ==
    /\ i <= j
    /\ \A k \in i..j : IsWordChar(s[k])
    /\ i = 1 \/ ~IsWordChar(s[i - 1])
    /\ j = Len(s) \/ ~IsWordChar(s[j + 1])

\* The positions at which a maximal run of more than 2 word characters starts.
LongRunStarts(s) ==
    {i \in 1..Len(s) : \E j \in (i + 2)..Len(s) : IsWordRun(s, i, j)}

\* The run that starts at i, in lower case.
LowerRunAt(s, i) ==
    toLowerCase(SubSeq(s, i, CHOOSE j \in i..Len(s) : IsWordRun(s, i, j)))

\* The n-th smallest position of a set of positions.
NthOf(positions, n) ==
    CHOOSE i \in positions : Cardinality({k \in positions : k < i}) = n - 1

\* C21: tokenize(text) is, in the order of the text, the maximal runs of word
\* characters longer than 2 characters, in lower case; no other character is
\* part of a token; a text without such a run gives the empty sequence.
C21_TokensAreLongWordRuns ==
    pc = "tokenized" =>
        /\ Len(result) = Cardinality(LongRunStarts(call.query))
        /\ \A n \in 1..Len(result) :
               /\ result[n] = LowerRunAt(call.query, NthOf(LongRunStarts(call.query), n))
               /\ Len(result[n]) > 2
               /\ \A k \in 1..Len(result[n]) : IsWordChar(result[n][k])

\* A text with an upper-case word, punctuation between two words and
\* whitespace, tokenized into two tokens; and a text of punctuation only.
C21_Witness ==
    /\ pc = "tokenized"
    /\ Len(result) = 2
    /\ \E i \in 1..Len(call.query) : call.query[i] = "!"
    /\ \E i \in 1..Len(call.query) : call.query[i] = "\t"
    /\ result[1] = <<"r", "u", "n">>

\* The score a sub-search gave the entry: the field of the result made from
\* it, 0 if the list holds none.
SubScore(list, e, field) ==
    IF \E n \in 1..Len(list) : SameEntry(list[n], e)
    THEN OrZero(list[CHOOSE n \in 1..Len(list) : SameEntry(list[n], e)][field])
    ELSE 0

\* alpha * sim(e) / maxSemantic + (1 - alpha) * kw(e) / maxKeyword for the
\* scores of the entry e itself, a share being 0 when its maximum is 0.
OwnHybridScore(e, semantic, keyword, alpha) ==
    Blend(alpha,
          Normalized(SubScore(semantic, e, "similarity_score"),
                     MaxSeq([i \in 1..Len(semantic) |-> OrZero(semantic[i].similarity_score)])),
          Normalized(SubScore(keyword, e, "keyword_score"),
                     MaxSeq([i \in 1..Len(keyword) |-> OrZero(keyword[i].keyword_score)])))

\* Two scores that differ by no more than the rounding of the last digit.
SameScore(a, b) == IsNumber(a) /\ IsNumber(b) /\ a - b <= 1 /\ b - a <= 1

\* C23: every result of hybridSearch is one entry of the corpus with the
\* hybrid_score blended from the semantic and the keyword score of that same
\* entry, also when entries share their date and day; and no entry of that
\* date and day found by a sub-search has a higher blended score than the
\* result kept.
C23_HybridScoreOfOneEntry ==
    HybridDone =>
        \A i \in 1..Len(result) :
            /\ \E d \in 1..Len(journalLogs) : SameEntry(result[i], journalLogs[d])
            /\ SameScore(result[i].hybrid_score,
                         OwnHybridScore(result[i], semanticResults, keywordResults, call.alpha))
            /\ \A n \in 1..Len(semanticResults) :
                   HybridKey(semanticResults[n]) = HybridKey(result[i]) =>
                       OwnHybridScore(semanticResults[n], semanticResults, keywordResults,
                                      call.alpha)
                           <= result[i].hybrid_score + 1

\* An add request under that user id pushed this entry.
AddedUnder(userId, entry) ==
    \E i \in 1..Len(adds) : adds[i].userId = userId /\ adds[i].pushed /\ adds[i].entry = entry

\* An add request under that user id stored a row that reads as this journal
\* entry.
SavedUnder(userId, journalEntry) ==
    \E i \in 1..Len(adds) :
        /\ adds[i].userId = userId
        /\ adds[i].status = 200
        /\ adds[i].entry.text = journalEntry.text
        /\ DateOf(adds[i].entry.timestamp) = journalEntry.date
        /\ DayOf(adds[i].entry.timestamp) = journalEntry.day

\* C22: whatever adds, entries requests and searches several users made, the
\* results of POST /session/<u>/search and the response of GET
\* /session/<u>/entries hold only entries that were added under the user id u,
\* from the rows of u or from the buffer of u's session object.
C22_OnlyOwnEntries ==
    /\ request.kind = "search" =>
           /\ \A i \in 1..Len(response.results) : SavedUnder(request.userId, response.results[i])
           /\ \A i \in 1..Len(journalLogs) : SavedUnder(request.userId, journalLogs[i])
    /\ request.kind = "entries" =>
           \A i \in 1..Len(response.entries) : AddedUnder(request.userId, response.entries[i])

\* A search that found an entry of its user while the table holds a row of
\* another user.
C22_Witness ==
    /\ request.kind = "search"
    /\ Len(response.results) > 0
    /\ \E i \in 1..Len(journal_entries) : journal_entries[i].user_id # request.userId

\* The corpus of the search holds the entry of that add.
InCorpus(added) ==
    \E j \in 1..Len(journalLogs) :
        /\ journalLogs[j].text = added.entry.text
        /\ journalLogs[j].date = DateOf(added.entry.timestamp)

\* C24: the user id the backend reads from the path of the session page's add
\* is the one it reads from the path of the query page's search of the same
\* signed-in user, so every entry that user saved is in the corpus of the
\* user's next search.
C24_SavedEntryIsSearched ==
    \A email \in UserEmails :
        (/\ request.kind = "search"
         /\ request.userId = SessionUserId(Pathname(QueryPageSearchPath(email)))
         /\ response.status = 200) =>
            /\ SessionUserId(Pathname(SessionPageAddPath(email))) = request.userId
            /\ \A i \in 1..Len(adds) :
                   (/\ adds[i].userId = SessionUserId(Pathname(SessionPageAddPath(email)))
                    /\ adds[i].status = 200) => InCorpus(adds[i])

\* C25: when POST /session/<u>/add answers with status 500 and success =
\* false, the entries buffer of the session object is what it was before the
\* request, so no entries request served from memory returns an entry whose
\* save was reported as failed.
C25_FailedAddLeavesBuffer ==
    [][(/\ pc = "session"
        /\ request'.kind = "add"
        /\ response'.status = 500
        /\ response'.success = "false") => entries' = entries]_vars

\* maxEntries of the session object of the worker that is live.
LiveMaxEntries == IF pc \in {"legacy", "legacyResponded"} THEN LegacyMaxEntries ELSE maxEntries

\* The adds that pushed an entry into the session object of that name, in
\* their order of arrival.
PushedInto(name) == SelectSeq(adds, LAMBDA a : a.session = name /\ a.pushed)

\* The entries of the last n of these adds.
NewestEntries(pushed, n) ==
    [i \in 1..(IF Len(pushed) < n THEN Len(pushed) ELSE n) |->
        pushed[Len(pushed) - (IF Len(pushed) < n THEN Len(pushed) ELSE n) + i].entry]

\* C26: after any sequence of add requests the entries buffer of a session
\* object holds at most maxEntries entries (50 in backend/src, 10 in src/src),
\* and they are the entries added last, in their order of arrival: each add
\* beyond the bound drops exactly the oldest entry.
C26_BufferHoldsNewest ==
    \A k \in 1..Len(entries) :
        /\ Len(entries[k].value) <= LiveMaxEntries
        /\ entries[k].value = NewestEntries(PushedInto(entries[k].key), LiveMaxEntries)

\* More adds than maxEntries went into one session object of backend/src and
\* its oldest entry is gone.
C26_Witness ==
    \E k \in 1..Len(entries) :
        /\ Len(PushedInto(entries[k].key)) > LiveMaxEntries
        /\ entries[k].value[1] # PushedInto(entries[k].key)[1].entry
        /\ pc = "responded"

\* The places of the rows of that user in the table.
RowsUnder(userId) == {i \in 1..Len(journal_entries) : journal_entries[i].user_id = userId}

\* The list holds one entry for every row of that user, up to the limit of
\* the query, the newest first.
NewestRowsOf(list, userId) ==
    /\ Len(list) <= EntriesLimit
    /\ Len(list) = (IF Cardinality(RowsUnder(userId)) < EntriesLimit
                    THEN Cardinality(RowsUnder(userId)) ELSE EntriesLimit)
    /\ \A i \in 1..Len(list) :
           \E r \in RowsUnder(userId) :
               list[i] = Entry(journal_entries[r].entry_text, journal_entries[r].timestamp)
    /\ \A i \in 1..Len(list), j \in 1..Len(list) :
           i < j => list[i].timestamp >= list[j].timestamp
    /\ \A r \in RowsUnder(userId) :
           \/ \E i \in 1..Len(list) :
                  list[i] = Entry(journal_entries[r].entry_text, journal_entries[r].timestamp)
           \/ \A i \in 1..Len(list) : list[i].timestamp >= journal_entries[r].timestamp

\* C27: GET /session/<u>/entries never answers with an error status.  When the
\* query succeeds with at least one row the response holds those rows, at most
\* 50 and the newest first; when the query fails or gives no row it holds the
\* buffer of the session object, with status 200.
C27_EntriesNeverFail ==
    request.kind = "entries" =>
        /\ response.status = 200
        /\ response.kind = "entries"
        /\ IF request.database = "ok" /\ RowsUnder(request.userId) # {}
           THEN NewestRowsOf(response.entries, request.userId)
           ELSE response.entries = BufferOf(entries, request.userId)

\* An entries request answered from the two rows of its user, the later one
\* first, while the buffer of the session object holds something else.
C27_Witness ==
    /\ request.kind = "entries"
    /\ request.database = "ok"
    /\ Len(response.entries) = 2
    /\ response.entries[1].timestamp > response.entries[2].timestamp
    /\ response.entries # BufferOf(entries, request.userId)

\* No token of the query is a token of an entry of the corpus.
SharesNoToken(query, logs) ==
    \A d \in 1..Len(logs), t \in 1..Len(tokenize(query)) :
        \A u \in 1..Len(tokenize(logs[d].text)) :
            tokenize(query)[t] # tokenize(logs[d].text)[u]

\* No token of the query occurs in the lowercased text of an entry of the
\* corpus, inside a word or as one.
NoTokenOccurs(query, logs) ==
    \A d \in 1..Len(logs), t \in 1..Len(tokenize(query)) :
        ~Includes(toLowerCase(logs[d].text), tokenize(query)[t])

\* Every result of the list has a hybrid_score of 0.
AllHybridZero(results) == \A i \in 1..Len(results) : results[i].hybrid_score = 0

\* A search request that was answered from a corpus that is not empty.
SearchedCorpus ==
    /\ request.kind = "search"
    /\ response.status = 200
    /\ response.totalEntries > 0

\* C28 as stated: for a corpus that is not empty the hybrid search returns at
\* least one result for every query; for a query that shares no token with
\* any entry the results have hybrid_score 0; and the search endpoint always
\* asks for the answer with a result list that is not empty.
C28_NoSharedTokenScoresZero ==
    SearchedCorpus =>
        /\ Len(response.results) >= 1
        /\ SharesNoToken(request.query, journalLogs) => AllHybridZero(response.results)
        /\ Len(result) >= 1 /\ Len(sent) = 1

\* C28, amended: for a corpus that is not empty and topK >= 1 the hybrid
\* search returns at least one result for every query and every alpha; for a
\* query none of whose tokens occurs in the text of any entry the results have
\* hybrid_score 0; and the search endpoint always asks for the answer with a
\* result list that is not empty.
C28_NoOccurringTokenScoresZero ==
    SearchedCorpus =>
        /\ Len(response.results) >= 1
        /\ response.results = result
        /\ NoTokenOccurs(request.query, journalLogs) => AllHybridZero(response.results)
        /\ Len(result) >= 1 /\ Len(sent) = 1
        /\ sent[1] = Prompt(request.query, result)
        /\ aiOutcome = "responseText" =>
               \A topK \in TopKs, alpha \in Alphas :
                   /\ Len(performHybridSearch(journalLogs, request.query, topK, alpha).out) >= 1
                   /\ NoTokenOccurs(request.query, journalLogs) =>
                          AllHybridZero(performHybridSearch(journalLogs, request.query, topK,
                                                            alpha).out)

\* A search whose query has tokens, none of them in the text of an entry: it
\* returned the entries with hybrid_score 0 and the answer was asked for.
C28_Witness ==
    /\ SearchedCorpus
    /\ Len(tokenize(request.query)) > 0
    /\ NoTokenOccurs(request.query, journalLogs)
    /\ Len(response.results) >= 1
    /\ AllHybridZero(response.results)
    /\ Len(sent) = 1

\* The last submit of the query page failed: the alert of its catch block is
\* the last one shown.
SubmitFailed == queryPage.alert = "searchFailed"

C30_SaveClearsOnlyOnSuccess ==
    [][/\ sessionPage'.ran = "handleSave" =>
              /\ sessionPage'.journalEntry = sessionPage.journalEntry
              /\ sessionPage'.wordCount = sessionPage.wordCount
       /\ (sessionPage'.ran = "saveSettled" /\ sessionPage' # sessionPage) =>
              IF Succeeded(sessionPage'.outcome)
              THEN sessionPage'.journalEntry = <<>> /\ sessionPage'.wordCount = 0
              ELSE /\ sessionPage'.journalEntry = sessionPage.journalEntry
                   /\ sessionPage'.wordCount = sessionPage.wordCount]_vars

\* A save of a text of two words was answered ok with success = true and the
\* page is empty again.
C30_Witness ==
    /\ sessionPage.ran = "saveSettled"
    /\ Succeeded(sessionPage.outcome)
    /\ WordCount(sessionPage.fetched.text) = 2
    /\ sessionPage.journalEntry = <<>>
    /\ sessionPage.wordCount = 0
    /\ sessionPage.alert = "saved"

====
